---- MODULE Spec2Model ----
(***************************************************************************)
(* The threading pipeline of the cypherpunk archive: Direct Linker         *)
(* (threading_step1), Orphan Classifier (threading_step2), Subject Matcher *)
(* (threading_step3 and threading_step3_fixed), Quote Matcher              *)
(* (threading_step3b_quotes), Time-Proximity Merger                        *)
(* (threading_step3c_timeprox) and Thread Assembler (threading_step4).     *)
(*                                                                         *)
(* Encoding of Python values:                                              *)
(*   None                  -> NoneV (an integer no id or date takes)       *)
(*   message ids           -> naturals; the empty string '' is EmptyStr    *)
(*   subjects, body lines  -> sequences of one-character strings           *)
(*   date_parsed           -> whole hours since an epoch, or NoneV         *)
(*   lists                 -> sequences; dicts -> functions                *)
(***************************************************************************)
EXTENDS Integers, Sequences, FiniteSets, TLC

VARIABLES
    pc,             \* the script that runs next / the loop it is in
    disk,           \* the JSON files of the threading directory
    emails,         \* the running script's in-memory list of emails
    by_message_id,  \* the running script's message_id -> email index
    cursor,         \* the running script's loop position
    stats,          \* the running script's statistics counters
    raised,         \* the exception the running script ended with, "none" if none
    call_subject,   \* the subject normalize_subject is first called on
    call_result     \* the value the last call of normalize_subject returned

vars == <<pc, disk, emails, by_message_id, cursor, stats, raised,
          call_subject, call_result>>

\* the state of a call of normalize_subject on its own, outside the pipeline
call_vars == <<call_subject, call_result>>

----------------------------------------------------------------------------
(* Python values *)

\* None, in a field that otherwise holds a message id, a date or a score
NoneV == -1
\* the empty string '', in a field that holds a message id
EmptyStr == 0

\* Python truthiness of an optional string (None and '' are falsy).
Truthy(x) == x # NoneV /\ x # EmptyStr

Min(S) == CHOOSE x \in S : \A y \in S : x <= y
Max(S) == CHOOSE x \in S : \A y \in S : x >= y

\* x in list
InSeq(x, s) == \E k \in 1..Len(s) : s[k] = x

----------------------------------------------------------------------------
(* Characters *)

UpperChars == <<"A","B","C","D","E","F","G","H","I","J","K","L","M",
                "N","O","P","Q","R","S","T","U","V","W","X","Y","Z">>
LowerChars == <<"a","b","c","d","e","f","g","h","i","j","k","l","m",
                "n","o","p","q","r","s","t","u","v","w","x","y","z">>
DigitChars == <<"0","1","2","3","4","5","6","7","8","9">>

\* str.lower() on one character
LowerChar(c) ==
    IF \E k \in 1..26 : UpperChars[k] = c
    THEN LowerChars[CHOOSE k \in 1..26 : UpperChars[k] = c]
    ELSE c

\* str.lower()
Lower(s) == [k \in 1..Len(s) |-> LowerChar(s[k])]

\* regex \s
IsSpace(c) == c \in {" ", "\t", "\n", "\r"}

\* regex \w
IsWord(c) ==
    \/ \E k \in 1..26 : UpperChars[k] = c \/ LowerChars[k] = c
    \/ \E k \in 1..10 : DigitChars[k] = c
    \/ c = "_"

\* str.lstrip(), str.rstrip(), str.strip()
RECURSIVE LStrip(_)
LStrip(s) == IF s # <<>> /\ IsSpace(Head(s)) THEN LStrip(Tail(s)) ELSE s
RECURSIVE RStrip(_)
RStrip(s) ==
    IF s # <<>> /\ IsSpace(s[Len(s)]) THEN RStrip(SubSeq(s, 1, Len(s) - 1)) ELSE s
Strip(s) == RStrip(LStrip(s))

\* s.startswith(p), and the same ignoring case (re.IGNORECASE)
StartsWith(s, p) == Len(s) >= Len(p) /\ SubSeq(s, 1, Len(p)) = p
StartsWithI(s, p) == Len(s) >= Len(p) /\ Lower(SubSeq(s, 1, Len(p))) = Lower(p)

\* s[n:]
Drop(s, n) == SubSeq(s, n + 1, Len(s))

\* needle in haystack (substring test on strings)
IsSubstring(needle, hay) ==
    \E k \in 0..(Len(hay) - Len(needle)) : SubSeq(hay, k + 1, k + Len(needle)) = needle

----------------------------------------------------------------------------
(* Subject Normalizer: threading_step2.normalize_subject, is_reply_subject *)

\* re.sub(r'^<word>\s*', '', s, flags=re.IGNORECASE) for a literal word
SubLiteralPrefix(s, word) ==
    IF StartsWithI(s, word) THEN LStrip(Drop(s, Len(word))) ELSE s

\* the length of the longest run of [\w\s-] characters at the start of s
RECURSIVE TagRun(_)
TagRun(s) ==
    IF s # <<>> /\ (IsWord(Head(s)) \/ IsSpace(Head(s)) \/ Head(s) = "-")
    THEN 1 + TagRun(Tail(s))
    ELSE 0

\* re.sub(r'^\[[\w\s-]+\]\s*', '', s)
SubTagPrefix(s) ==
    IF s # <<>> /\ Head(s) = "["
    THEN LET n == TagRun(Tail(s))
         IN  IF n >= 1 /\ Len(s) >= n + 2 /\ s[n + 2] = "]"
             THEN LStrip(Drop(s, n + 2))
             ELSE s
    ELSE s

\* the list `prefixes`, in order: Re:, RE:, Fwd:, FWD:, Fw:, FW:, [tag]
\* (k = 7 is the tag pattern); every one is applied with re.IGNORECASE
LiteralPrefixes == << <<"R","e",":">>, <<"R","E",":">>,
                      <<"F","w","d",":">>, <<"F","W","D",":">>,
                      <<"F","w",":">>, <<"F","W",":">> >>

ApplyPrefix(s, k) ==
    IF k <= Len(LiteralPrefixes) THEN SubLiteralPrefix(s, LiteralPrefixes[k])
    ELSE SubTagPrefix(s)

\* one pass of `for prefix in prefixes`, from the k-th prefix on:
\* returns <<s, changed>>
RECURSIVE PrefixPass(_, _, _)
PrefixPass(s, k, changed) ==
    IF k > Len(LiteralPrefixes) + 1 THEN <<s, changed>>
    ELSE LET new_s == ApplyPrefix(s, k)
         IN  IF new_s # s THEN PrefixPass(Strip(new_s), k + 1, TRUE)
             ELSE PrefixPass(s, k + 1, changed)

\* A single pass over the prefixes, not repeated.
PrefixPassOnce(s) == PrefixPass(s, 1, FALSE)[1]

\* `while changed:`
RECURSIVE PrefixLoop(_)
PrefixLoop(s) ==
    LET r == PrefixPass(s, 1, FALSE)
    IN  IF r[2] THEN PrefixLoop(r[1]) ELSE r[1]

normalize_subject(subject) ==
    IF subject = <<>> THEN <<>>
    ELSE Lower(Strip(PrefixLoop(Strip(subject))))

\* the list `reply_patterns` (matched case-sensitively with re.match)
reply_patterns == << <<"R","e",":">>, <<"R","E",":">>,
                     <<"F","w",":">>, <<"F","W",":">>,
                     <<"F","w","d",":">>, <<"F","W","D",":">> >>

is_reply_subject(subject) ==
    IF subject = <<>> THEN FALSE
    ELSE \E k \in 1..Len(reply_patterns) : StartsWith(Strip(subject), reply_patterns[k])

----------------------------------------------------------------------------
(* Bodies of the archive: a body is the list of its lines, body.split('\n') *)

LineEscrow == <<"K","e","y"," ","e","s","c","r","o","w"," ","h","a","n","d","s"," ","y","o","u","r"," ","p","r","i","v","a","t","e"," ","k","e","y","s"," ","t","o"," ","t","h","e"," ","s","t","a","t","e",".">>
LineCipher == <<"N","o","b","o","d","y"," ","s","h","o","u","l","d"," ","t","r","u","s","t"," ","a"," ","c","i","p","h","e","r"," ","w","i","t","h"," ","a"," ","b","a","c","k"," ","d","o","o","r","!">>
LineOppose == <<"I","t"," ","m","u","s","t"," ","b","e"," ","o","p","p","o","s","e","d",".">>
LineAgree  == <<"I"," ","a","g","r","e","e",".">>
LinePgp    == <<"-","-","-","-","-","B","E","G","I","N"," ","P","G","P"," ","M","E","S","S","A","G","E","-","-","-","-","-">>
Quote(line) == <<">", " ">> \o line

body_text ==
    << <<LineEscrow, LineOppose>>,              \* 1: states the escrow line
       <<Quote(LineEscrow), LineAgree>>,        \* 2: quotes the escrow line
       <<LineCipher, LineOppose>>,              \* 3: states the cipher line
       <<Quote(LineCipher), LineAgree>>,        \* 4: quotes the cipher line
       <<Quote(LineAgree), LineEscrow>>,        \* 5: a short quote only
       <<LinePgp, LineAgree>>,                  \* 6: a PGP message
       <<Quote(LineCipher), Quote(LineCipher),  \* 7: quotes the escrow line
         Quote(LineCipher), Quote(LineCipher),  \*    in its sixth quoted line
         Quote(LineCipher), Quote(LineEscrow)>> >>

\* body ids: 0 is the empty body ''
Bodies == 0..Len(body_text)
body_lines(b) == IF b = 0 THEN <<>> ELSE body_text[b]

RECURSIVE SumLen(_)
SumLen(lines) == IF lines = <<>> THEN 0 ELSE Len(Head(lines)) + SumLen(Tail(lines))
\* len(body)
body_len(b) == IF b = 0 THEN 0 ELSE SumLen(body_lines(b)) + Len(body_lines(b)) - 1

\* parse_emails.py line 204: has_pgp = 'BEGIN PGP' in body
has_pgp(b) ==
    \E k \in 1..Len(body_lines(b)) :
        IsSubstring(<<"B","E","G","I","N"," ","P","G","P">>, body_lines(b)[k])

has_pgp_of == [b \in Bodies |-> has_pgp(b)]

----------------------------------------------------------------------------
(* Input archive: the records parse_emails.py hands to the pipeline *)

\* The largest archive the model runs the pipeline on.
MaxEmails == 3

\* parse_emails._generate_id: the id is the hash of the message_id when there
\* is one, so records that share a message_id share their id; otherwise it is
\* a hash of the record's content (year, date, sender, subject, body), taken
\* here to differ between the records of the archive.
generate_id(pos, message_id) ==
    IF message_id # EmptyStr THEN message_id ELSE 0 - (pos + 1)

\* A record as parse_emails.py writes it, before any threading field exists.
ParsedEmail(pos, message_id, in_reply_to, subject, date_parsed, body) ==
    [ id                 |-> generate_id(pos, message_id),
      message_id         |-> message_id,
      in_reply_to        |-> in_reply_to,
      subject            |-> subject,
      date_parsed        |-> date_parsed,
      body               |-> body,
      has_pgp            |-> has_pgp_of[body],
      from_raw           |-> EmptyStr,
      from_email         |-> NoneV,
      parent_id          |-> NoneV,
      children_ids       |-> <<>>,
      orphan_status      |-> "unset",
      normalized_subject |-> <<>>,
      match_score        |-> NoneV,
      quote_match_score  |-> NoneV,
      time_proximity_days |-> NoneV,
      thread_id          |-> NoneV ]

\* Subjects of the archive.
SubjKeyEscrow   == <<"K","e","y"," ","e","s","c","r","o","w">>
SubjReKeyEscrow == <<"R","e",":"," ","K","e","y"," ","e","s","c","r","o","w">>
SubjLowerRe     == <<"r","e",":"," ","K","e","y"," ","e","s","c","r","o","w">>
SubjReOnly      == <<"R","e",":">>
SubjKey         == <<"K","e","y">>
SubjFwdTag      == <<"F","W","D",":"," ","[","l","i","s","t","]"," ","K","e","y">>
SubjEmpty       == <<>>
SubjCiphers     == <<"C","i","p","h","e","r","s">>

Subjects == {SubjKeyEscrow, SubjReKeyEscrow, SubjLowerRe, SubjReOnly, SubjKey,
             SubjFwdTag, SubjEmpty, SubjCiphers}

\* normalize_subject and is_reply_subject of every subject of the archive,
\* computed once
normalized_subject_of == [s \in Subjects |-> normalize_subject(s)]
is_reply_subject_of == [s \in Subjects |-> is_reply_subject(s)]

----------------------------------------------------------------------------
(* Files and indexes *)

Files == {"emails_no_spam", "threading_step1", "threading_step2", "threading_step3",
          "threading_step3b", "threading_step3c", "threading_step4_emails",
          "threading_step4_threads"}

\* json.load of a file that was written
Load(f) == disk[f][1]
Written(f) == disk[f] # <<>>
\* json.dump
Dump(f, data) == [disk EXCEPT ![f] = <<data>>]

Positions(es) == 1..Len(es)

\* {e['message_id']: e for e in emails if e.get('message_id')}: a later record
\* with the same message_id replaces an earlier one. The dict holds references,
\* modelled as positions in the list.
build_by_message_id(es) ==
    [m \in {es[i].message_id : i \in Positions(es)} \ {EmptyStr}
        |-> Max({i \in Positions(es) : es[i].message_id = m})]

\* dict.get(key): the position of the record, 0 for None
IndexGet(index, key) == IF key \in DOMAIN index THEN index[key] ELSE 0

\* dict[key] = record at position pos
IndexPut(index, key, pos) ==
    [m \in DOMAIN index \cup {key} |-> IF m = key THEN pos ELSE index[m]]

\* {e['id']: e for e in emails}.get(id)
by_id(es, id) ==
    LET S == {i \in Positions(es) : es[i].id = id}
    IN  IF S = {} THEN 0 ELSE Max(S)

\* the positions of S in list order
RECURSIVE InOrder(_)
InOrder(S) == IF S = {} THEN <<>> ELSE <<Min(S)>> \o InOrder(S \ {Min(S)})

----------------------------------------------------------------------------
(* Direct Linker: threading_step1.build_thread_trees *)

\* `if reply_to: ... if reply_to in by_message_id:`
in_reply_to_matched(es, i) ==
    /\ Truthy(es[i].in_reply_to)
    /\ es[i].in_reply_to \in DOMAIN build_by_message_id(es)

\* parent_of.get(msg_id) after the loop: parent_of is keyed by message_id, so the
\* last record in list order with this message_id and a matched in_reply_to
\* decides the entry.
parent_of_get(es, msg_id) ==
    LET S == {i \in Positions(es) : es[i].message_id = msg_id /\ in_reply_to_matched(es, i)}
    IN  IF S = {} THEN NoneV ELSE es[Max(S)].in_reply_to

\* children_of.get(msg_id, []) after the loop: one entry appended for every
\* record whose matched in_reply_to is msg_id, in list order.
children_of_get(es, msg_id) ==
    LET order == InOrder({i \in Positions(es) :
                             in_reply_to_matched(es, i) /\ es[i].in_reply_to = msg_id})
    IN  [k \in 1..Len(order) |-> es[order[k]].message_id]

step1_emails(es) ==
    [i \in Positions(es) |->
        [es[i] EXCEPT !.parent_id = parent_of_get(es, es[i].message_id),
                      !.children_ids = children_of_get(es, es[i].message_id)]]

step1_stats(es) ==
    [ total_emails            |-> Len(es),
      emails_with_in_reply_to |-> Cardinality({i \in Positions(es) : Truthy(es[i].in_reply_to)}),
      in_reply_to_matched     |-> Cardinality({i \in Positions(es) : in_reply_to_matched(es, i)}) ]

\* lines 112-125, the summary printed after the files are saved: the
\* percentages divide by total_emails and by emails_with_in_reply_to
step1_summary(s) ==
    IF s.total_emails = 0 \/ s.emails_with_in_reply_to = 0
    THEN "ZeroDivisionError" ELSE "none"

build_thread_trees ==
    /\ pc = "step1"
    /\ Written("emails_no_spam")
    /\ LET es == step1_emails(Load("emails_no_spam"))
       IN  /\ emails' = es
           /\ disk' = Dump("threading_step1", es)
    /\ stats' = step1_stats(Load("emails_no_spam"))
    /\ raised' = step1_summary(step1_stats(Load("emails_no_spam")))
    /\ pc' = "step2"
    /\ UNCHANGED <<by_message_id, cursor, call_vars>>

----------------------------------------------------------------------------
(* Orphan Classifier: threading_step2.identify_orphans *)

\* A classifier that takes an in_reply_to header, resolved or not, for a reply
\* marker.
classify_by_header(e) ==
    LET has_parent == e.parent_id # NoneV
        is_reply == is_reply_subject_of[e.subject] \/ Truthy(e.in_reply_to)
    IN  [e EXCEPT !.orphan_status = IF has_parent THEN "has_parent"
                                    ELSE IF is_reply THEN "orphan_reply"
                                    ELSE "true_root",
                  !.normalized_subject = normalized_subject_of[e.subject]]

classify(e) ==
    LET has_parent == e.parent_id # NoneV
        is_reply == is_reply_subject_of[e.subject]
    IN  [e EXCEPT !.orphan_status = IF has_parent THEN "has_parent"
                                    ELSE IF is_reply THEN "orphan_reply"
                                    ELSE "true_root",
                  !.normalized_subject = normalized_subject_of[e.subject]]

\* the list `orphans` (lines 95, 119-130): the records marked orphan_reply
orphans(es) == {i \in Positions(es) : es[i].orphan_status = "orphan_reply"}

\* lines 211-213, the summary printed after the files are saved: the
\* percentages divide by len(orphans)
step2_summary(es) ==
    IF Cardinality(orphans(es)) = 0 THEN "ZeroDivisionError" ELSE "none"

identify_orphans ==
    /\ pc = "step2"
    /\ Written("threading_step1")
    /\ LET es == [i \in Positions(Load("threading_step1")) |->
                     classify(Load("threading_step1")[i])]
       IN  /\ emails' = es
           /\ disk' = Dump("threading_step2", es)
           /\ stats' = [ total_emails |-> Len(es),
                         reply_subjects_without_parent |->
                             Cardinality({i \in Positions(es) : es[i].orphan_status = "orphan_reply"}) ]
           /\ raised' = step2_summary(es)
    /\ pc' = "step3"
    /\ UNCHANGED <<by_message_id, cursor, call_vars>>

----------------------------------------------------------------------------
(* Cycle Guard: would_create_cycle (the same text in threading_step3_fixed, *)
(* threading_step3b_quotes and threading_step3c_timeprox)                   *)

\* the `while current_id:` loop, with `visited` and `current_id` as its state
RECURSIVE cycle_walk(_, _, _, _, _)
cycle_walk(child_msg_id, current_id, visited, index, es) ==
    IF ~Truthy(current_id) THEN FALSE
    ELSE IF current_id = child_msg_id THEN TRUE
    ELSE IF current_id \in visited THEN TRUE
    ELSE LET parent_email == IndexGet(index, current_id)
         IN  IF parent_email = 0 THEN FALSE
             ELSE cycle_walk(child_msg_id, es[parent_email].parent_id,
                             visited \cup {current_id}, index, es)

would_create_cycle(child_msg_id, parent_msg_id, index, es) ==
    cycle_walk(child_msg_id, parent_msg_id, {}, index, es)

----------------------------------------------------------------------------
(* Subject Matcher: threading_step3_fixed.match_orphans (with the cycle    *)
(* guard) and threading_step3.match_orphans (the earlier script, without)  *)

\* parse_date: the model's date_parsed already is the naive wall-clock time the
\* function extracts from the ISO string (whole hours); None stays None.
parse_date(date_str) == IF date_str = NoneV THEN NoneV ELSE date_str

\* list.sort(key=date_parsed or date_raw or ''): a stable sort; a record with
\* no date sorts first (its key is '', the Date header being absent).
RECURSIVE sort_by_date(_, _)
sort_by_date(S, es) ==
    IF S = {} THEN <<>>
    ELSE LET first == CHOOSE i \in S : \A j \in S :
                          \/ es[i].date_parsed < es[j].date_parsed
                          \/ es[i].date_parsed = es[j].date_parsed /\ i <= j
         IN  <<first>> \o sort_by_date(S \ {first}, es)

\* by_subject.get(norm_subj, []): positions of the records of one normalized
\* subject, date-sorted; records with an empty normalized subject are in no group
by_subject(es, norm_subj) ==
    IF norm_subj = <<>> THEN <<>>
    ELSE sort_by_date({i \in Positions(es) : es[i].normalized_subject = norm_subj}, es)

\* lines 150-169: the score of one candidate
candidate_score(orphan, candidate) ==
    LET orphan_date == parse_date(orphan.date_parsed)
        cand_date == parse_date(candidate.date_parsed)
        time_gap == (orphan_date - cand_date) * 3600
    IN  (IF candidate.orphan_status = "true_root" THEN 10 ELSE 0)
      + (IF candidate.children_ids # <<>> THEN 5 ELSE 0)
      + (IF Truthy(candidate.parent_id) THEN 3 ELSE 0)
      + (IF orphan_date # NoneV /\ cand_date # NoneV
         THEN (IF time_gap < 86400 THEN 5
               ELSE IF time_gap < 604800 THEN 3
               ELSE IF time_gap < 2592000 THEN 1 ELSE 0)
         ELSE 0)

\* The date test with `>` for `>=`: a candidate of the orphan's own date passes.
not_earlier_same_date_passes(orphan, candidate) ==
    /\ parse_date(orphan.date_parsed) # NoneV
    /\ parse_date(candidate.date_parsed) # NoneV
    /\ parse_date(candidate.date_parsed) > parse_date(orphan.date_parsed)

\* `if orphan_date and cand_date and cand_date >= orphan_date: continue`
not_earlier(orphan, candidate) ==
    /\ parse_date(orphan.date_parsed) # NoneV
    /\ parse_date(candidate.date_parsed) # NoneV
    /\ parse_date(candidate.date_parsed) >= parse_date(orphan.date_parsed)

\* The `for candidate in same_subject` loop from the k-th candidate on. acc is
\* [best_parent (a position, 0 for None), best_score, prevented]; guarded tells
\* the two scripts apart: only threading_step3_fixed calls would_create_cycle.
RECURSIVE candidate_loop(_, _, _, _, _, _, _)
candidate_loop(i, same_subject, k, acc, index, es, guarded) ==
    IF k > Len(same_subject) THEN acc
    ELSE LET c == same_subject[k]
             next(a) == candidate_loop(i, same_subject, k + 1, a, index, es, guarded)
         IN  IF es[c].id = es[i].id THEN next(acc)
             ELSE IF not_earlier(es[i], es[c]) THEN next(acc)
             ELSE IF guarded /\ would_create_cycle(es[i].message_id, es[c].message_id, index, es)
                  THEN next([acc EXCEPT !.prevented = @ + 1])
             ELSE LET score == candidate_score(es[i], es[c])
                  IN  IF score > acc.best_score
                      THEN next([acc EXCEPT !.best_parent = c, !.best_score = score])
                      ELSE next(acc)

\* lines 118-174: the search for the parent of the orphan at position i
find_best_parent(i, index, es, guarded) ==
    LET none == [best_parent |-> 0, best_score |-> -1, prevented |-> 0]
        same_subject == by_subject(es, es[i].normalized_subject)
    IN  IF es[i].normalized_subject = <<>> THEN none
        ELSE IF Len(same_subject) <= 1 THEN none
        ELSE candidate_loop(i, same_subject, 1, none, index, es, guarded)

\* A link that also leaves the score on the parent.
link_scores_parent(es, child, parent, status, score) ==
    LET linked == [es EXCEPT ![child].parent_id = es[parent].message_id,
                             ![child].orphan_status = status,
                             ![child].match_score = score,
                             ![parent].match_score = score]
    IN  IF InSeq(es[child].message_id, linked[parent].children_ids) THEN linked
        ELSE [linked EXCEPT ![parent].children_ids = Append(@, es[child].message_id)]

\* A link that also rewrites the child's in_reply_to to name its parent.
link_rewrites_in_reply_to(es, child, parent, status, score) ==
    LET linked == [es EXCEPT ![child].parent_id = es[parent].message_id,
                             ![child].orphan_status = status,
                             ![child].match_score = score,
                             ![child].in_reply_to = es[parent].message_id]
    IN  IF InSeq(es[child].message_id, linked[parent].children_ids) THEN linked
        ELSE [linked EXCEPT ![parent].children_ids = Append(@, es[child].message_id)]

\* lines 176-185: email['parent_id'] = ..., best_parent['children_ids'].append(...)
link(es, child, parent, status, score) ==
    LET linked == [es EXCEPT ![child].parent_id = es[parent].message_id,
                             ![child].orphan_status = status,
                             ![child].match_score = score]
    IN  IF InSeq(es[child].message_id, linked[parent].children_ids) THEN linked
        ELSE [linked EXCEPT ![parent].children_ids = Append(@, es[child].message_id)]

\* the next record the `for email in emails` loop does not skip
next_with_status(es, after, status) ==
    LET S == {i \in Positions(es) : i > after /\ es[i].orphan_status = status}
    IN  IF S = {} THEN Len(es) + 1 ELSE Min(S)

\* the counters of threading_step3_fixed (lines 92-111) and of threading_step3
\* (lines 74-91), which has no cycles_prevented
step3_stats(guarded) ==
    IF guarded
    THEN [orphans_before |-> 0, orphans_matched |-> 0, orphans_unmatched |-> 0,
          cycles_prevented |-> 0]
    ELSE [orphans_before |-> 0, orphans_matched |-> 0, orphans_unmatched |-> 0]

\* 'orphans_before': sum(1 for e in emails if orphan_status == 'orphan_reply')
orphans_before(es) ==
    Cardinality({i \in Positions(es) : es[i].orphan_status = "orphan_reply"})

\* lines 236-240, the summary printed after the files are saved: the
\* percentage divides by orphans_before
step3_summary(s) ==
    IF s.orphans_before = 0 THEN "ZeroDivisionError" ELSE "none"

\* stats['cycles_prevented'] += 1 for every candidate the guard rejected
count_prevented(s, prevented) ==
    IF "cycles_prevented" \in DOMAIN s
    THEN [s EXCEPT !.cycles_prevented = @ + prevented] ELSE s

\* threading_step3_fixed: load, build the indexes
match_orphans_load ==
    /\ pc = "step3"
    /\ Written("threading_step2")
    /\ emails' = Load("threading_step2")
    /\ by_message_id' = build_by_message_id(Load("threading_step2"))
    /\ cursor' = next_with_status(Load("threading_step2"), 0, "orphan_reply")
    /\ stats' = [step3_stats(TRUE) EXCEPT
                     !.orphans_before = orphans_before(Load("threading_step2"))]
    /\ raised' = "none"
    /\ pc' = "step3_fixed_loop"
    /\ UNCHANGED <<disk, call_vars>>

\* threading_step3: load, build the indexes
match_orphans_unfixed_load ==
    /\ pc = "step3"
    /\ Written("threading_step2")
    /\ emails' = Load("threading_step2")
    /\ by_message_id' = build_by_message_id(Load("threading_step2"))
    /\ cursor' = next_with_status(Load("threading_step2"), 0, "orphan_reply")
    /\ stats' = [step3_stats(FALSE) EXCEPT
                     !.orphans_before = orphans_before(Load("threading_step2"))]
    /\ raised' = "none"
    /\ pc' = "step3_unfixed_loop"
    /\ UNCHANGED <<disk, call_vars>>

\* one iteration of `for email in emails` on an orphan_reply
match_one_orphan(guarded) ==
    LET found == find_best_parent(cursor, by_message_id, emails, guarded)
    IN  /\ cursor <= Len(emails)
        /\ IF found.best_parent # 0
           THEN /\ emails' = link(emails, cursor, found.best_parent,
                                  "matched_by_subject", found.best_score)
                /\ by_message_id' = IF guarded
                                    THEN IndexPut(by_message_id, emails[cursor].message_id, cursor)
                                    ELSE by_message_id
                /\ stats' = count_prevented([stats EXCEPT !.orphans_matched = @ + 1],
                                             found.prevented)
           ELSE /\ stats' = count_prevented([stats EXCEPT !.orphans_unmatched = @ + 1],
                                             found.prevented)
                /\ UNCHANGED <<emails, by_message_id>>
        /\ cursor' = next_with_status(emails, cursor, "orphan_reply")
        /\ UNCHANGED <<pc, disk, raised, call_vars>>

match_orphans_email ==
    /\ pc = "step3_fixed_loop"
    /\ match_one_orphan(TRUE)

match_orphans_unfixed_email ==
    /\ pc = "step3_unfixed_loop"
    /\ match_one_orphan(FALSE)

\* lines 219-230: save threading_step3.json (both scripts write this file)
match_orphans_save ==
    /\ pc \in {"step3_fixed_loop", "step3_unfixed_loop"}
    /\ cursor > Len(emails)
    /\ disk' = Dump("threading_step3", emails)
    /\ raised' = step3_summary(stats)
    /\ pc' = "step3b"
    /\ UNCHANGED <<emails, by_message_id, cursor, stats, call_vars>>

----------------------------------------------------------------------------
(* Quote Matcher: threading_step3b_quotes *)

\* re.sub(r'^>+\s*', '', s)
RECURSIVE StripQuoteMarks(_)
StripQuoteMarks(s) ==
    IF s # <<>> /\ Head(s) = ">" THEN StripQuoteMarks(Tail(s)) ELSE LStrip(s)

RECURSIVE extract_from(_)
extract_from(lines) ==
    IF lines = <<>> THEN <<>>
    ELSE LET line == Strip(Head(lines))
             cleaned == StripQuoteMarks(line)
         IN  (IF StartsWith(line, <<">">>) /\ cleaned # <<>> /\ Len(cleaned) > 20
              THEN <<cleaned>> ELSE <<>>) \o extract_from(Tail(lines))

extract_quoted_lines(b) == IF b = 0 THEN <<>> ELSE extract_from(body_lines(b))

\* re.sub(r'\s+', ' ', text)
RECURSIVE CollapseSpace(_)
CollapseSpace(s) ==
    IF s = <<>> THEN <<>>
    ELSE IF IsSpace(Head(s))
         THEN <<" ">> \o CollapseSpace(LStrip(s))
         ELSE <<Head(s)>> \o CollapseSpace(Tail(s))

\* re.sub(r'[^\w\s]', '', text)
RECURSIVE DropPunctuation(_)
DropPunctuation(s) ==
    IF s = <<>> THEN <<>>
    ELSE (IF IsWord(Head(s)) \/ IsSpace(Head(s)) THEN <<Head(s)>> ELSE <<>>)
         \o DropPunctuation(Tail(s))

normalize_for_matching(text) == Strip(DropPunctuation(CollapseSpace(Lower(text))))

\* lines 117-128: the snippets one record contributes to body_index
RECURSIVE index_from(_)
index_from(lines) ==
    IF lines = <<>> THEN <<>>
    ELSE LET line == Strip(Head(lines))
             normalized == normalize_for_matching(line)
         IN  (IF Len(line) > 30 /\ Len(normalized) > 20 THEN <<normalized>> ELSE <<>>)
             \o index_from(Tail(lines))

indexed_snippets(b) ==
    IF b = 0 \/ body_len(b) < 50 THEN <<>> ELSE index_from(body_lines(b))

\* the two functions on every body of the archive, computed once
quoted_lines_of == [b \in Bodies |-> extract_quoted_lines(b)]
snippets_of == [b \in Bodies |-> indexed_snippets(b)]
Count(x, s) == Cardinality({k \in 1..Len(s) : s[k] = x})

\* body_index.get(snippet, []): the ids of the records holding the snippet, in
\* list order, one entry for every line that holds it
RECURSIVE body_index_from(_, _, _)
body_index_from(es, i, snippet) ==
    IF i > Len(es) THEN <<>>
    ELSE [k \in 1..Count(snippet, snippets_of[es[i].body]) |-> es[i].id]
         \o body_index_from(es, i + 1, snippet)

body_index_get(es, snippet) == body_index_from(es, 1, snippet)

\* lines 211-227: the score of one source
quote_score(email, source) ==
    LET norm_subj == email.normalized_subject
        source_subj == source.normalized_subject
        email_date == parse_date(email.date_parsed)
        source_date == parse_date(source.date_parsed)
        days_apart == (email_date - source_date) \div 24
    IN  1
      + (IF source_subj = norm_subj THEN 10
         ELSE IF IsSubstring(norm_subj, source_subj) \/ IsSubstring(source_subj, norm_subj)
              THEN 5 ELSE 0)
      + (IF email_date # NoneV /\ source_date # NoneV
         THEN (IF days_apart < 1 THEN 5
               ELSE IF days_apart < 7 THEN 3
               ELSE IF days_apart < 30 THEN 1 ELSE 0)
         ELSE 0)

\* The loop over the sources with `>=` for `>`: of the sources of the greatest
\* score the last found wins.
RECURSIVE source_loop_last_wins(_, _, _, _, _)
source_loop_last_wins(i, sources, k, acc, es) ==
    IF k > Len(sources) THEN acc
    ELSE LET s == by_id(es, sources[k])
         IN  IF s = 0 THEN source_loop_last_wins(i, sources, k + 1, acc, es)
             ELSE IF es[s].id = es[i].id THEN source_loop_last_wins(i, sources, k + 1, acc, es)
             ELSE IF not_earlier(es[i], es[s]) THEN source_loop_last_wins(i, sources, k + 1, acc, es)
             ELSE IF quote_score(es[i], es[s]) >= acc.best_score
                  THEN source_loop_last_wins(i, sources, k + 1,
                           [best_match |-> s, best_score |-> quote_score(es[i], es[s])], es)
                  ELSE source_loop_last_wins(i, sources, k + 1, acc, es)

\* `for source_id in potential_sources`, from the k-th source on;
\* acc is [best_match (a position, 0 for None), best_score]
RECURSIVE source_loop(_, _, _, _, _)
source_loop(i, sources, k, acc, es) ==
    IF k > Len(sources) THEN acc
    ELSE LET s == by_id(es, sources[k])
         IN  IF s = 0 THEN source_loop(i, sources, k + 1, acc, es)
             ELSE IF es[s].id = es[i].id THEN source_loop(i, sources, k + 1, acc, es)
             ELSE IF not_earlier(es[i], es[s]) THEN source_loop(i, sources, k + 1, acc, es)
             ELSE IF quote_score(es[i], es[s]) > acc.best_score
                  THEN source_loop(i, sources, k + 1,
                                   [best_match |-> s, best_score |-> quote_score(es[i], es[s])], es)
                  ELSE source_loop(i, sources, k + 1, acc, es)

\* `for quoted_line in quoted_lines[:5]`, from the k-th line on
RECURSIVE quoted_line_loop(_, _, _, _, _)
quoted_line_loop(i, quoted_lines, k, acc, es) ==
    IF k > Len(quoted_lines) \/ k > 5 THEN acc
    ELSE LET normalized_quote == normalize_for_matching(quoted_lines[k])
         IN  IF Len(normalized_quote) < 20
             THEN quoted_line_loop(i, quoted_lines, k + 1, acc, es)
             ELSE quoted_line_loop(i, quoted_lines, k + 1,
                      source_loop(i, body_index_get(es, normalized_quote), 1, acc, es), es)

\* lines 170-178: same_subject, with the partial-subject fallback
same_subject_or_similar(es, norm_subj) ==
    LET same == {i \in Positions(es) : es[i].normalized_subject = norm_subj}
    IN  IF Cardinality(same) <= 1
        THEN {i \in Positions(es) :
                 /\ es[i].normalized_subject # <<>>
                 /\ \/ IsSubstring(norm_subj, es[i].normalized_subject)
                    \/ IsSubstring(es[i].normalized_subject, norm_subj)}
        ELSE same

\* lines 144-155: a record the matching loop visits
is_quote_candidate(e) ==
    e.orphan_status = "true_root" /\ quoted_lines_of[e.body] # <<>>

next_quote_candidate(es, after) ==
    LET S == {i \in Positions(es) : i > after /\ is_quote_candidate(es[i])}
    IN  IF S = {} THEN Len(es) + 1 ELSE Min(S)

match_by_quotes_load ==
    /\ pc = "step3b"
    /\ Written("threading_step3")
    /\ emails' = Load("threading_step3")
    /\ by_message_id' = build_by_message_id(Load("threading_step3"))
    /\ cursor' = next_quote_candidate(Load("threading_step3"), 0)
    /\ stats' = [matches_found |-> 0, cycles_prevented |-> 0, no_match_found |-> 0]
    /\ raised' = "none"
    /\ pc' = "step3b_loop"
    /\ UNCHANGED <<disk, call_vars>>

\* one iteration of `for email, quoted_lines in candidates`
match_by_quotes_email ==
    /\ pc = "step3b_loop"
    /\ cursor <= Len(emails)
    /\ LET email == emails[cursor]
           found == quoted_line_loop(cursor, quoted_lines_of[email.body], 1,
                                     [best_match |-> 0, best_score |-> 0], emails)
       IN  IF email.normalized_subject = <<>>
           THEN UNCHANGED <<emails, by_message_id, stats>>
           ELSE IF same_subject_or_similar(emails, email.normalized_subject) = {}
           THEN /\ stats' = [stats EXCEPT !.no_match_found = @ + 1]
                /\ UNCHANGED <<emails, by_message_id>>
           ELSE IF found.best_match = 0
           THEN /\ stats' = [stats EXCEPT !.no_match_found = @ + 1]
                /\ UNCHANGED <<emails, by_message_id>>
           ELSE IF would_create_cycle(email.message_id, emails[found.best_match].message_id,
                                      by_message_id, emails)
           THEN /\ stats' = [stats EXCEPT !.cycles_prevented = @ + 1]
                /\ UNCHANGED <<emails, by_message_id>>
           ELSE /\ emails' = [link(emails, cursor, found.best_match, "matched_by_quote",
                                   email.match_score)
                                EXCEPT ![cursor].quote_match_score = found.best_score]
                /\ by_message_id' = IndexPut(by_message_id, email.message_id, cursor)
                /\ stats' = [stats EXCEPT !.matches_found = @ + 1]
    /\ cursor' = next_quote_candidate(emails, cursor)
    /\ UNCHANGED <<pc, disk, raised, call_vars>>

match_by_quotes_save ==
    /\ pc = "step3b_loop"
    /\ cursor > Len(emails)
    /\ disk' = Dump("threading_step3b", emails)
    /\ pc' = "step3c"
    /\ UNCHANGED <<emails, by_message_id, cursor, stats, raised, call_vars>>

----------------------------------------------------------------------------
(* Time-Proximity Merger: threading_step3c_timeprox.merge_by_time_proximity *)

\* main(): merge_by_time_proximity(..., max_days=3)
max_days == 3

\* lines 80-84: the records that enter true_roots_by_subject
in_true_root_group(e) ==
    /\ e.orphan_status = "true_root"
    /\ e.normalized_subject # <<>>
    /\ Len(e.normalized_subject) > 3

\* the keys of true_roots_by_subject in insertion order, each named by the
\* position of the first record that has it
group_firsts(es) ==
    InOrder({i \in Positions(es) :
                /\ in_true_root_group(es[i])
                /\ \A j \in 1..(i - 1) :
                      ~(in_true_root_group(es[j])
                        /\ es[j].normalized_subject = es[i].normalized_subject)})

\* one group of true_roots_by_subject
group_of(es, first) ==
    {i \in Positions(es) : in_true_root_group(es[i])
                           /\ es[i].normalized_subject = es[first].normalized_subject}

\* lines 109-118: roots_with_dates of one group, sorted by date (a stable sort)
roots_with_dates(es, first) ==
    sort_by_date({i \in group_of(es, first) : parse_date(es[i].date_parsed) # NoneV}, es)

\* the groups the outer loop does not skip: more than one true_root (line 89)
\* and at least two of them dated (line 115)
RECURSIVE merge_groups(_, _)
merge_groups(es, firsts) ==
    IF firsts = <<>> THEN <<>>
    ELSE (IF Cardinality(group_of(es, Head(firsts))) > 1
             /\ Len(roots_with_dates(es, Head(firsts))) >= 2
          THEN <<roots_with_dates(es, Head(firsts))>> ELSE <<>>)
         \o merge_groups(es, Tail(firsts))

merge_by_time_proximity_load ==
    /\ pc = "step3c"
    /\ Written("threading_step3b")
    /\ emails' = Load("threading_step3b")
    /\ by_message_id' = build_by_message_id(Load("threading_step3b"))
    /\ LET groups == merge_groups(Load("threading_step3b"),
                                  group_firsts(Load("threading_step3b")))
       IN  cursor' = [groups |-> groups, g |-> 1, k |-> 2,
                      canonical |-> IF groups = <<>> THEN 0 ELSE groups[1][1]]
    /\ stats' = [matches_found |-> 0, cycles_prevented |-> 0, too_far_apart |-> 0]
    /\ raised' = "none"
    /\ pc' = "step3c_loop"
    /\ UNCHANGED <<disk, call_vars>>

\* A loop that takes every member it has dealt with as the canonical root.
advance_to_member(c, canonical) ==
    IF c.k < Len(c.groups[c.g])
    THEN [c EXCEPT !.k = c.k + 1, !.canonical = c.groups[c.g][c.k]]
    ELSE [c EXCEPT !.g = c.g + 1, !.k = 2,
                   !.canonical = IF c.g + 1 <= Len(c.groups)
                                 THEN c.groups[c.g + 1][1] ELSE 0]

\* the loop position after the k-th member of group g, given the canonical root
\* the inner loop now holds
advance(c, canonical) ==
    IF c.k < Len(c.groups[c.g])
    THEN [c EXCEPT !.k = c.k + 1, !.canonical = canonical]
    ELSE [c EXCEPT !.g = c.g + 1, !.k = 2,
                   !.canonical = IF c.g + 1 <= Len(c.groups)
                                 THEN c.groups[c.g + 1][1] ELSE 0]

\* one iteration of `for later_root, later_date in roots_with_dates[1:]`
merge_by_time_proximity_root ==
    /\ pc = "step3c_loop"
    /\ cursor.g <= Len(cursor.groups)
    /\ LET later_root == cursor.groups[cursor.g][cursor.k]
           canonical_root == cursor.canonical
           days_apart == (parse_date(emails[later_root].date_parsed)
                          - parse_date(emails[canonical_root].date_parsed)) \div 24
       IN  IF days_apart > max_days
           THEN /\ stats' = [stats EXCEPT !.too_far_apart = @ + 1]
                /\ cursor' = advance(cursor, later_root)
                /\ UNCHANGED <<emails, by_message_id>>
           ELSE IF would_create_cycle(emails[later_root].message_id,
                                      emails[canonical_root].message_id,
                                      by_message_id, emails)
           THEN /\ stats' = [stats EXCEPT !.cycles_prevented = @ + 1]
                /\ cursor' = advance(cursor, canonical_root)
                /\ UNCHANGED <<emails, by_message_id>>
           ELSE /\ emails' = [link(emails, later_root, canonical_root,
                                   "matched_by_time_proximity",
                                   emails[later_root].match_score)
                                EXCEPT ![later_root].time_proximity_days = days_apart]
                /\ by_message_id' = IndexPut(by_message_id,
                                             emails[later_root].message_id, later_root)
                /\ stats' = [stats EXCEPT !.matches_found = @ + 1]
                /\ cursor' = advance(cursor, canonical_root)
    /\ UNCHANGED <<pc, disk, raised, call_vars>>

merge_by_time_proximity_save ==
    /\ pc = "step3c_loop"
    /\ cursor.g > Len(cursor.groups)
    /\ disk' = Dump("threading_step3c", emails)
    /\ cursor' = 0
    /\ pc' = "step4"
    /\ UNCHANGED <<emails, by_message_id, stats, raised, call_vars>>

----------------------------------------------------------------------------
(* Thread Assembler: threading_step4.build_threads *)

\* get_thread_messages(root_email, depth): the list of (email, depth) pairs,
\* emails as positions; children_messages is its `for child_msg_id in ...` loop
RECURSIVE get_thread_messages(_, _, _, _)
RECURSIVE children_messages(_, _, _, _, _)
get_thread_messages(es, index, root_email, depth) ==
    << <<root_email, depth>> >>
    \o children_messages(es, index, es[root_email].children_ids, 1, depth)
children_messages(es, index, children_ids, k, depth) ==
    IF k > Len(children_ids) THEN <<>>
    ELSE (LET child == IndexGet(index, children_ids[k])
          IN  IF child = 0 THEN <<>>
              ELSE get_thread_messages(es, index, child, depth + 1))
         \o children_messages(es, index, children_ids, k + 1, depth)

\* Whether the recursion from this record never returns (Python then raises
\* RecursionError): a chain of calls longer than the list visits a record twice.
RECURSIVE recursion_overflows(_, _, _, _)
recursion_overflows(es, index, email, depth) ==
    IF depth > Len(es) THEN TRUE
    ELSE \E k \in 1..Len(es[email].children_ids) :
            LET child == IndexGet(index, es[email].children_ids[k])
            IN  child # 0 /\ recursion_overflows(es, index, child, depth + 1)

\* A sort of the thread's messages that puts the unknown dates last.
RECURSIVE sort_messages_unknown_last(_, _, _)
sort_messages_unknown_last(msgs, S, es) ==
    IF S = {} THEN <<>>
    ELSE LET date(a) == es[msgs[a][1]].date_parsed
             first == CHOOSE a \in S : \A b \in S :
                          \/ date(a) # NoneV /\ date(b) = NoneV
                          \/ date(a) # NoneV /\ date(b) # NoneV /\ date(a) < date(b)
                          \/ date(a) = date(b) /\ a <= b
         IN  <<msgs[first]>> \o sort_messages_unknown_last(msgs, S \ {first}, es)

\* thread_messages.sort(key=parse_date(...) or datetime.min): a stable sort;
\* S is a set of list indexes of msgs
RECURSIVE sort_messages(_, _, _)
sort_messages(msgs, S, es) ==
    IF S = {} THEN <<>>
    ELSE LET first == CHOOSE a \in S : \A b \in S :
                          \/ es[msgs[a][1]].date_parsed < es[msgs[b][1]].date_parsed
                          \/ /\ es[msgs[a][1]].date_parsed = es[msgs[b][1]].date_parsed
                             /\ a <= b
         IN  <<msgs[first]>> \o sort_messages(msgs, S \ {first}, es)

thread_messages_of(es, index, root) ==
    LET msgs == get_thread_messages(es, index, root, 0)
    IN  sort_messages(msgs, 1..Len(msgs), es)

\* lines 86-90: m.get('from_email') or m.get('from_raw', ''), for the members
\* that have one of them, as a set
sender_of(e) == IF Truthy(e.from_email) THEN e.from_email ELSE e.from_raw

participants_of(es, msgs) ==
    {sender_of(es[msgs[k][1]]) : k \in {k \in 1..Len(msgs) :
                                           \/ Truthy(es[msgs[k][1]].from_email)
                                           \/ Truthy(es[msgs[k][1]].from_raw)}}

\* lines 84-115: the thread record of one root
thread_of(es, index, root) ==
    LET msgs == thread_messages_of(es, index, root)
        dates == {es[msgs[k][1]].date_parsed : k \in 1..Len(msgs)} \ {NoneV}
    IN  [ id              |-> es[root].id,
          root_message_id |-> es[root].id,
          root_position   |-> root,
          message_ids     |-> [k \in 1..Len(msgs) |-> es[msgs[k][1]].id],
          members         |-> [k \in 1..Len(msgs) |-> msgs[k][1]],
          message_count   |-> Len(msgs),
          participants    |-> participants_of(es, msgs),
          participant_count |-> Cardinality(participants_of(es, msgs)),
          has_pgp         |-> \E k \in 1..Len(msgs) : es[msgs[k][1]].has_pgp,
          date_start      |-> IF dates = {} THEN NoneV ELSE Min(dates),
          date_end        |-> IF dates = {} THEN NoneV ELSE Max(dates),
          depth           |-> Max({msgs[k][2] : k \in 1..Len(msgs)}) ]

\* roots = [e for e in emails if e.get('parent_id') is None]
thread_roots(es) == InOrder({i \in Positions(es) : es[i].parent_id = NoneV})

\* lines 119-121, over all roots in order: the last thread that holds a record
\* leaves its id on it
stamp_thread_ids(es, threads) ==
    [i \in Positions(es) |->
        LET holding == {n \in 1..Len(threads) : InSeq(i, threads[n].members)}
        IN  IF holding = {} THEN es[i]
            ELSE [es[i] EXCEPT !.thread_id = threads[Max(holding)].id]]

\* main() reads threading/threading_step3.json
build_threads ==
    /\ pc = "step4"
    /\ Written("threading_step3")
    /\ LET es == Load("threading_step3")
           index == build_by_message_id(es)
           roots == thread_roots(es)
       IN  /\ \A n \in 1..Len(roots) : ~recursion_overflows(es, index, roots[n], 0)
           /\ LET threads == [n \in 1..Len(roots) |-> thread_of(es, index, roots[n])]
              IN  /\ emails' = stamp_thread_ids(es, threads)
                  /\ disk' = [disk EXCEPT !["threading_step4_threads"] = <<threads>>,
                                          !["threading_step4_emails"] =
                                              <<stamp_thread_ids(es, threads)>>]
                  /\ stats' = [total_emails |-> Len(es), total_threads |-> Len(threads)]
                  /\ by_message_id' = index
    /\ raised' = "none"
    /\ pc' = "done"
    /\ UNCHANGED <<cursor, call_vars>>

\* get_thread_messages never returns for some root: RecursionError, and the
\* script ends before it writes a file
build_threads_raises ==
    /\ pc = "step4"
    /\ Written("threading_step3")
    /\ LET es == Load("threading_step3")
           index == build_by_message_id(es)
           roots == thread_roots(es)
       IN  \E n \in 1..Len(roots) : recursion_overflows(es, index, roots[n], 0)
    /\ raised' = "RecursionError"
    /\ pc' = "crashed"
    /\ UNCHANGED <<disk, emails, by_message_id, cursor, stats, call_vars>>

----------------------------------------------------------------------------
(* The pipeline *)

\* Archives of n records: the record at position i takes its message_id from
\* mids[i] and its other fields from the given sets.
RECURSIVE Archives(_, _, _, _, _, _)
Archives(n, mids, irts, subjects, dates, bodies) ==
    IF n = 0 THEN {<<>>}
    ELSE {Append(a, ParsedEmail(n, m, r, s, d, b)) :
             a \in Archives(n - 1, mids, irts, subjects, dates, bodies),
             m \in mids[n], r \in irts, s \in subjects, d \in dates, b \in bodies}

\* message_ids by position: '' or an id of 1..i (ids are only ever compared
\* for equality, so a first occurrence need not be numbered above its
\* position); an id of its own; '' or an id of its own; '', the id of the
\* first record or an id of its own
AnyIds == [i \in 1..MaxEmails |-> 0..i]
OwnIds == [i \in 1..MaxEmails |-> {i}]
OwnOrNoIds == [i \in 1..MaxEmails |-> {EmptyStr, i}]
OwnFirstOrNoIds == [i \in 1..MaxEmails |-> {EmptyStr, 1, i}]

\* date_parsed of midnight of the n-th day, in hours
Day(n) == 24 * n
\* three and a half days after day 1
Day4Noon == Day(4) + 12

\* Reply headers: every record may reply to the first two ids; 2 is the id of a
\* record outside the archive when no record of the archive has it.
HeaderArchives(n) ==
    Archives(n, AnyIds, {NoneV, 1, 2}, {SubjKeyEscrow, SubjReKeyEscrow}, {NoneV}, {0})

\* Subjects and dates, no reply headers.
SubjectArchives(n) ==
    Archives(n, OwnIds, {NoneV}, {SubjKeyEscrow, SubjReKeyEscrow, SubjLowerRe, SubjReOnly},
             {NoneV, Day(1), Day(2)}, {0})

\* Bodies that state and quote a line.
QuoteArchives(n) ==
    Archives(n, OwnIds, {NoneV}, {SubjKeyEscrow, SubjKey}, {NoneV, Day(1), Day(2)}, {1, 2})

\* Replies and records without a subject that state and quote a line.
ReplyQuoteArchives(n) ==
    Archives(n, OwnIds, {NoneV}, {SubjKeyEscrow, SubjReKeyEscrow, SubjEmpty},
             {NoneV}, {1, 2, 7})

\* Records of one subject spread over ten days.
DatedArchives(n) ==
    Archives(n, OwnFirstOrNoIds, {NoneV}, {SubjKeyEscrow},
             {NoneV, Day(1), Day(2), Day4Noon, Day(10)}, {0})

\* Bodies that state and quote a line under subjects that have nothing in
\* common.
UnrelatedQuoteArchives(n) ==
    Archives(n, OwnIds, {NoneV}, {SubjKeyEscrow, SubjCiphers}, {NoneV}, {1, 2})

\* The size of the reply forests.
ForestSize == 4

\* The From header of a record: from_raw is the header, from_email the address
\* parse_emails.py found in it (None when it found none). The strings are
\* 1 for an address, 2 for the address behind a display name, 3 for a name
\* without an address.
AddressOnly == [from_raw |-> 1, from_email |-> 1]
NameAndAddress == [from_raw |-> 2, from_email |-> 1]
NameOnly == [from_raw |-> 3, from_email |-> NoneV]
NoFromHeader == [from_raw |-> EmptyStr, from_email |-> NoneV]

\* The records a forest may hold at position i: a reply to one of the first
\* two records before it or no reply, with a sender and, from the third on,
\* possibly a PGP body.
ForestReplies(i) == {NoneV} \cup {j \in 1..2 : j < i}
ForestSenders(i) ==
    IF i = 1 THEN {AddressOnly}
    ELSE IF i = 2 THEN {NameAndAddress, NameOnly}
    ELSE IF i = 3 THEN {AddressOnly, NameOnly}
    ELSE {NoFromHeader, NameOnly}
ForestDates(i) == IF i = 1 THEN {NoneV, Day(2)} ELSE IF i = 2 THEN {NoneV, Day(1)} ELSE {NoneV}
ForestBodies(i) == IF i <= 2 THEN {0} ELSE {0, 6}

ForestRecords(i) ==
    {[ParsedEmail(i, i, r, SubjKeyEscrow, d, b)
         EXCEPT !.from_raw = f.from_raw, !.from_email = f.from_email] :
        r \in ForestReplies(i), d \in ForestDates(i), b \in ForestBodies(i),
        f \in ForestSenders(i)}

RECURSIVE ForestArchives(_)
ForestArchives(n) ==
    IF n = 0 THEN {<<>>}
    ELSE {Append(a, e) : a \in ForestArchives(n - 1), e \in ForestRecords(n)}

InputArchives ==
    UNION { HeaderArchives(n) : n \in 0..MaxEmails }
    \cup SubjectArchives(MaxEmails)
    \cup QuoteArchives(MaxEmails)
    \cup DatedArchives(MaxEmails)
    \cup UnrelatedQuoteArchives(MaxEmails)
    \cup ReplyQuoteArchives(MaxEmails)
    \cup ForestArchives(ForestSize)

Init ==
    /\ pc = "step1"
    /\ disk \in { [f \in Files |-> IF f = "emails_no_spam" THEN <<a>> ELSE <<>>] :
                    a \in InputArchives }
    /\ emails = <<>>
    /\ by_message_id = <<>>
    /\ cursor = 0
    /\ stats = [total_emails |-> 0]
    /\ raised = "none"
    /\ call_subject = <<>>
    /\ call_result = <<>>

\* The pipeline with threading_step3_fixed as its Subject Matcher.
NextFixed ==
    \/ build_thread_trees
    \/ identify_orphans
    \/ match_orphans_load
    \/ match_orphans_email
    \/ match_orphans_save
    \/ match_by_quotes_load
    \/ match_by_quotes_email
    \/ match_by_quotes_save
    \/ merge_by_time_proximity_load
    \/ merge_by_time_proximity_root
    \/ merge_by_time_proximity_save
    \/ build_threads
    \/ build_threads_raises

SpecFixed == Init /\ [][NextFixed]_vars

\* Every script of the repository: the Subject Matcher is threading_step3_fixed
\* or the earlier threading_step3.
Next ==
    \/ NextFixed
    \/ match_orphans_unfixed_load
    \/ match_orphans_unfixed_email

Spec == Init /\ [][Next]_vars

----------------------------------------------------------------------------
(* Calls of normalize_subject on their own *)

\* The subjects the function is called on: every string of at most
\* MaxSubjectLen of these characters, and the subjects of the archive.
MaxSubjectLen == 6
SubjectChars == {"R", "e", ":", " ", "[", "]"}
BoundedSubjects ==
    UNION { [1..n -> SubjectChars] : n \in 0..MaxSubjectLen } \cup Subjects

pipeline_vars == <<disk, emails, by_message_id, cursor, stats, raised>>

NormalizeInit ==
    /\ pc = "normalize_subject"
    /\ call_subject \in BoundedSubjects
    /\ call_result = <<>>
    /\ disk = [f \in Files |-> <<>>]
    /\ emails = <<>>
    /\ by_message_id = <<>>
    /\ cursor = 0
    /\ stats = [total_emails |-> 0]
    /\ raised = "none"

\* normalize_subject(subject)
normalize_subject_call ==
    /\ pc = "normalize_subject"
    /\ call_result' = normalize_subject(call_subject)
    /\ pc' = "returned"
    /\ UNCHANGED <<call_subject, pipeline_vars>>

\* a second call on the same subject
normalize_subject_repeat ==
    /\ pc = "returned"
    /\ call_result' = normalize_subject(call_subject)
    /\ pc' = "repeated"
    /\ UNCHANGED <<call_subject, pipeline_vars>>

\* a call on the value the last call returned
normalize_subject_again ==
    /\ pc \in {"returned", "repeated"}
    /\ call_result' = normalize_subject(call_result)
    /\ pc' = "renormalized"
    /\ UNCHANGED <<call_subject, pipeline_vars>>

NormalizeNext ==
    \/ normalize_subject_call
    \/ normalize_subject_repeat
    \/ normalize_subject_again

SpecNormalize == NormalizeInit /\ [][NormalizeNext]_vars

----------------------------------------------------------------------------
(* The forest invariants of the phases' outputs *)

\* Following parent_id from record i reaches a record with no parent_id in at
\* most n steps; one step goes from a record to a record whose message_id is
\* its parent_id.
RECURSIVE ReachesRoot(_, _, _)
ReachesRoot(es, i, n) ==
    \/ es[i].parent_id = NoneV
    \/ /\ n > 0
       /\ \E j \in Positions(es) :
             es[j].message_id = es[i].parent_id /\ ReachesRoot(es, j, n - 1)

Acyclic(es) == \A i \in Positions(es) : ReachesRoot(es, i, Len(es))

HeuristicLoops == {"step3_fixed_loop", "step3b_loop", "step3c_loop"}

\* C1: the Subject Matcher (threading_step3_fixed), the Quote Matcher and the
\* Time-Proximity Merger preserve acyclicity: no step of their loops takes a
\* collection in which every record reaches a root within N steps to one in
\* which some record does not, also when links of the same phase chain and when
\* message_ids are absent or duplicated.
C1_HeuristicPhasesPreserveAcyclicity ==
    [][(pc \in HeuristicLoops /\ Acyclic(emails)) => Acyclic(emails')]_vars

\* C2: the parent_id relation the Direct Linker writes is acyclic for every
\* input, a record that replies to itself and two records that reply to each
\* other included.
C2_DirectLinkerAcyclic ==
    Written("threading_step1") => Acyclic(Load("threading_step1"))

NoRepeats(s) == \A k, l \in 1..Len(s) : s[k] = s[l] => k = l

InverseConsistent(es) ==
    /\ \A a, b \in Positions(es) :
          InSeq(es[b].message_id, es[a].children_ids)
              <=> es[b].parent_id = es[a].message_id
    /\ \A a \in Positions(es) : NoRepeats(es[a].children_ids)

\* the files of the phases that link records
LinkerOutputs == {"threading_step1", "threading_step3", "threading_step3b", "threading_step3c"}

\* C3: after the Direct Linker, the Subject Matcher, the Quote Matcher and the
\* Time-Proximity Merger, b's message_id is in a.children_ids exactly when
\* b.parent_id is a's message_id, and no children_ids holds an entry twice,
\* also with empty or shared message_ids.
C3_InverseConsistency ==
    \A f \in LinkerOutputs : Written(f) => InverseConsistent(Load(f))

RECURSIVE SumCounts(_)
SumCounts(threads) ==
    IF threads = <<>> THEN 0 ELSE Head(threads).message_count + SumCounts(Tail(threads))

\* C4: after the Thread Assembler every record has a thread_id, its id is in
\* the message_ids of exactly one thread, the message_counts add up to the
\* number of records, and every thread's root record has no parent_id.
C4_EveryRecordInExactlyOneThread ==
    pc = "done" =>
        LET es == Load("threading_step4_emails")
            threads == Load("threading_step4_threads")
        IN  /\ \A i \in Positions(es) :
                  /\ es[i].thread_id # NoneV
                  /\ Cardinality({n \in 1..Len(threads) :
                                     InSeq(es[i].id, threads[n].message_ids)}) = 1
            /\ SumCounts(threads) = Len(es)
            /\ \A n \in 1..Len(threads) : \A i \in Positions(es) :
                  es[i].id = threads[n].root_message_id => es[i].parent_id = NoneV

\* the files of all phases before the Thread Assembler
PhaseOutputs == LinkerOutputs \cup {"threading_step2"}

\* C5: after every phase each non-null parent_id is the message_id of a record
\* of the collection that the message-id index resolves; so no record with an
\* empty message_id is a parent and no matched record has an unresolvable parent.
C5_NoDanglingParent ==
    \A f \in PhaseOutputs : Written(f) =>
        \A i \in Positions(Load(f)) :
            Load(f)[i].parent_id # NoneV =>
                /\ Load(f)[i].parent_id # EmptyStr
                /\ Load(f)[i].parent_id \in DOMAIN build_by_message_id(Load(f))

----------------------------------------------------------------------------
(* The cycle guard and the links of the heuristic phases *)

AllLoops == HeuristicLoops \cup {"step3_unfixed_loop"}

\* The pairs <<child, candidate parent>>, as positions, that the next iteration
\* of the running loop tries to link: in the Subject Matcher every candidate
\* that passes the self and date tests, in the Quote Matcher the best source,
\* in the Time-Proximity Merger the canonical root when it is near enough.
attempts ==
    IF pc \in {"step3_fixed_loop", "step3_unfixed_loop"}
    THEN IF cursor > Len(emails) \/ emails[cursor].normalized_subject = <<>> THEN {}
         ELSE {<<cursor, c>> : c \in {c \in Positions(emails) :
                  /\ emails[c].normalized_subject = emails[cursor].normalized_subject
                  /\ emails[c].id # emails[cursor].id
                  /\ ~not_earlier(emails[cursor], emails[c])}}
    ELSE IF pc = "step3b_loop"
    THEN IF cursor > Len(emails) \/ emails[cursor].normalized_subject = <<>> THEN {}
         ELSE LET found == quoted_line_loop(cursor, quoted_lines_of[emails[cursor].body], 1,
                                            [best_match |-> 0, best_score |-> 0], emails)
              IN  IF same_subject_or_similar(emails, emails[cursor].normalized_subject) = {}
                     \/ found.best_match = 0
                  THEN {} ELSE {<<cursor, found.best_match>>}
    ELSE IF pc = "step3c_loop"
    THEN IF cursor.g > Len(cursor.groups) THEN {}
         ELSE LET later_root == cursor.groups[cursor.g][cursor.k]
              IN  IF (emails[later_root].date_parsed
                      - emails[cursor.canonical].date_parsed) \div 24 > max_days
                  THEN {} ELSE {<<later_root, cursor.canonical>>}
    ELSE {}

\* C6: every parent_id a phase loop assigns passed would_create_cycle on the
\* graph as it was before the assignment; an attempt the guard rejects links
\* nothing, leaves the parent_id and children_ids of both records as they
\* were, and adds one to the phase's cycles_prevented.
C6_EveryAssignmentGuarded ==
    [][(pc \in AllLoops) =>
        LET rejected == {a \in attempts :
                            would_create_cycle(emails[a[1]].message_id,
                                               emails[a[2]].message_id,
                                               by_message_id, emails)}
        IN  /\ \A i \in Positions(emails) :
                  emails'[i].parent_id # emails[i].parent_id =>
                      ~would_create_cycle(emails[i].message_id, emails'[i].parent_id,
                                          by_message_id, emails)
            /\ \A a \in rejected :
                  /\ \/ emails'[a[1]].parent_id = emails[a[1]].parent_id
                     \/ emails'[a[1]].parent_id # emails[a[2]].message_id
                  /\ emails'[a[2]].parent_id = emails[a[2]].parent_id
                  /\ emails'[a[2]].children_ids = emails[a[2]].children_ids
            /\ rejected # {} =>
                  /\ "cycles_prevented" \in DOMAIN stats
                  /\ stats'.cycles_prevented = stats.cycles_prevented + Cardinality(rejected)
    ]_vars

\* The ids the loop of would_create_cycle holds in current_id, in order, for
\* at most n rounds: the walk ends at an empty id and after an id the index
\* does not resolve.
RECURSIVE walked_ids(_, _, _, _)
walked_ids(current_id, index, es, n) ==
    IF ~Truthy(current_id) \/ n = 0 THEN <<>>
    ELSE <<current_id>> \o
         (IF current_id \in DOMAIN index
          THEN walked_ids(es[index[current_id]].parent_id, index, es, n - 1)
          ELSE <<>>)

\* the walk reaches child or comes to an id a second time
walk_closes(child_msg_id, parent_msg_id, index, es) ==
    LET w == walked_ids(parent_msg_id, index, es, Len(es) + 2)
    IN  \E k \in 1..Len(w) : w[k] = child_msg_id \/ \E l \in 1..(k - 1) : w[l] = w[k]

\* C7: on every graph a phase holds, would_create_cycle(child, candidate_parent)
\* is true exactly when the walk from candidate_parent reaches child or
\* revisits an id (so the call ends, also on a graph with a cycle), and it is
\* true for (A, B) whenever A is the parent of B.
C7_GuardCharacterised ==
    pc \in AllLoops =>
        LET ids == {emails[i].message_id : i \in Positions(emails)} \cup {EmptyStr, MaxEmails + 1}
        IN  /\ \A c, p \in ids :
                  would_create_cycle(c, p, by_message_id, emails)
                      <=> walk_closes(c, p, by_message_id, emails)
            /\ \A a, b \in Positions(emails) :
                  emails[b].parent_id = emails[a].message_id =>
                      would_create_cycle(emails[a].message_id, emails[b].message_id,
                                         by_message_id, emails)

----------------------------------------------------------------------------
(* The Direct Linker, the Orphan Classifier and the Subject Matcher *)

\* C8: after the Direct Linker a record has a parent_id exactly when its own
\* in_reply_to is non-empty and is the message_id of a record of the archive,
\* and the parent_id is that in_reply_to; this for every record, whatever its
\* message_id.
C8_ParentFromOwnInReplyTo ==
    Written("threading_step1") =>
        LET archive == Load("emails_no_spam")
            out == Load("threading_step1")
        IN  \A i \in Positions(out) :
                LET resolves == /\ Truthy(archive[i].in_reply_to)
                                /\ \E j \in Positions(archive) :
                                      archive[j].message_id = archive[i].in_reply_to
                IN  /\ out[i].parent_id # NoneV <=> resolves
                    /\ resolves => out[i].parent_id = archive[i].in_reply_to

\* the trimmed subject begins with one of the markers of is_reply_subject
BeginsWithReplyMarker(subject) ==
    \E k \in 1..Len(reply_patterns) : StartsWith(Strip(subject), reply_patterns[k])

EarlierWhenDated(orphan, candidate) ==
    (orphan.date_parsed # NoneV /\ candidate.date_parsed # NoneV)
        => candidate.date_parsed < orphan.date_parsed

\* The candidates eligible as the parent of the orphan at position i on the
\* graph es. As stated in section 4.5, a candidate is any other record of the
\* orphan's normalized subject; as coded, the orphan's normalized subject is
\* non-empty and the candidate has another id (records of one message_id share
\* their id).
EligibleCandidates(i, index, es, as_coded) ==
    {c \in Positions(es) :
        /\ IF as_coded
           THEN es[i].normalized_subject # <<>> /\ es[c].id # es[i].id
           ELSE c # i
        /\ es[c].normalized_subject = es[i].normalized_subject
        /\ EarlierWhenDated(es[i], es[c])
        /\ ~would_create_cycle(es[i].message_id, es[c].message_id, index, es)}

\* The two states of a record that entered the Subject Matcher as orphan_reply.
SubjectMatcherStates(as_coded) ==
    Written("threading_step3") =>
        LET in == Load("threading_step2")
            out == Load("threading_step3")
        IN  \A i \in Positions(out) :
                in[i].orphan_status = "orphan_reply" =>
                    \/ /\ out[i].orphan_status = "matched_by_subject"
                       /\ out[i].parent_id # NoneV
                       /\ \E c \in Positions(out) :
                             /\ IF as_coded THEN out[c].id # out[i].id ELSE c # i
                             /\ out[c].normalized_subject = out[i].normalized_subject
                             /\ EarlierWhenDated(out[i], out[c])
                             /\ out[i].parent_id = out[c].message_id
                    \/ /\ out[i].orphan_status = "orphan_reply"
                       /\ out[i].parent_id = NoneV

\* One iteration of the Subject Matcher on an orphan: it stays an orphan_reply
\* with no parent exactly when no candidate is eligible on the current graph,
\* and otherwise gets the message_id of an eligible candidate.
SubjectMatcherStep(as_coded) ==
    (pc = "step3_fixed_loop" /\ cursor <= Len(emails)) =>
        LET eligible == EligibleCandidates(cursor, by_message_id, emails, as_coded)
        IN  IF eligible = {}
            THEN /\ emails'[cursor].orphan_status = "orphan_reply"
                 /\ emails'[cursor].parent_id = NoneV
            ELSE /\ emails'[cursor].orphan_status = "matched_by_subject"
                 /\ \E c \in eligible : emails'[cursor].parent_id = emails[c].message_id

\* Scenario 1: R1 'Key escrow' of day 1, a true_root, and R2 'Re: Key escrow'
\* of day 2, an orphan_reply, no third record sharing their normalized subject.
Scenario1(es, r1, r2) ==
    /\ es[r1].subject = SubjKeyEscrow /\ es[r1].date_parsed = Day(1)
    /\ es[r2].subject = SubjReKeyEscrow /\ es[r2].date_parsed = Day(2)
    /\ es[r1].parent_id = NoneV /\ es[r2].in_reply_to = NoneV
    /\ \A k \in Positions(es) \ {r1, r2} :
          es[k].normalized_subject # es[r1].normalized_subject

Scenario1Result ==
    Written("threading_step3") =>
        LET out == Load("threading_step3")
        IN  \A r1, r2 \in Positions(out) :
                Scenario1(out, r1, r2) =>
                    /\ out[r2].parent_id = out[r1].message_id
                    /\ out[r2].orphan_status = "matched_by_subject"

\* C10, as stated: after the Subject Matcher a record that entered as
\* orphan_reply is matched_by_subject under another record of its normalized
\* subject, dated strictly earlier when both are dated, that passed the guard,
\* or is still an orphan_reply with no parent; the latter exactly when no such
\* candidate exists; and Scenario 1 ends with R2 under R1.
C10_AsStated ==
    /\ [](SubjectMatcherStates(FALSE) /\ Scenario1Result)
    /\ [][SubjectMatcherStep(FALSE)]_vars

\* C10, amended: the same with the candidates the code takes: the orphan's
\* normalized subject is non-empty and the candidate has another id; an orphan
\* whose normalized subject is empty always stays an orphan_reply.
C10_SubjectMatcherOutcome ==
    /\ [](SubjectMatcherStates(TRUE) /\ Scenario1Result)
    /\ [][SubjectMatcherStep(TRUE)]_vars

\* Scenario 1 has run beside an orphan that found no candidate: R2 is
\* matched_by_subject under R1 and the third record is still an orphan_reply.
C10_Witness ==
    /\ Written("threading_step3")
    /\ LET out == Load("threading_step3")
       IN  \E r1, r2, r3 \in Positions(out) :
              /\ Scenario1(out, r1, r2)
              /\ out[r1].orphan_status = "true_root"
              /\ out[r2].orphan_status = "matched_by_subject"
              /\ out[r2].parent_id = out[r1].message_id
              /\ Load("threading_step2")[r3].orphan_status = "orphan_reply"
              /\ out[r3].orphan_status = "orphan_reply"
              /\ out[r3].parent_id = NoneV

----------------------------------------------------------------------------
(* What the Subject Matcher leaves alone *)

\* A record whose subject has no reply/forward marker and whose in_reply_to
\* does not resolve in the archive.
NoMarkerNoResolvedReply(i) ==
    /\ ~is_reply_subject_of[Load("emails_no_spam")[i].subject]
    /\ ~in_reply_to_matched(Load("emails_no_spam"), i)

IsPrefix(s, t) == Len(s) <= Len(t) /\ SubSeq(t, 1, Len(s)) = s

\* C11, as stated: for every record whose subject has no reply/forward marker
\* and whose in_reply_to does not resolve, parent_id, children_ids,
\* orphan_status and match_score are the same after the Subject Matcher as
\* before it.
C11_AsStated ==
    Written("threading_step3") =>
        LET in == Load("threading_step2")
            out == Load("threading_step3")
        IN  \A i \in Positions(out) :
                NoMarkerNoResolvedReply(i) =>
                    /\ out[i].parent_id = in[i].parent_id
                    /\ out[i].children_ids = in[i].children_ids
                    /\ out[i].orphan_status = in[i].orphan_status
                    /\ out[i].match_score = in[i].match_score

\* C11, amended: for such a record the Subject Matcher leaves parent_id,
\* orphan_status and match_score as they were and only appends to
\* children_ids, each new entry being the message_id of a record the phase
\* matched under this record's message_id.
C11_TrueRootOnlyGainsChildren ==
    Written("threading_step3") =>
        LET in == Load("threading_step2")
            out == Load("threading_step3")
        IN  \A i \in Positions(out) :
                NoMarkerNoResolvedReply(i) =>
                    /\ out[i].parent_id = in[i].parent_id
                    /\ out[i].orphan_status = in[i].orphan_status
                    /\ out[i].match_score = in[i].match_score
                    /\ IsPrefix(in[i].children_ids, out[i].children_ids)
                    /\ \A k \in (Len(in[i].children_ids) + 1)..Len(out[i].children_ids) :
                          \E j \in Positions(out) :
                              /\ out[j].message_id = out[i].children_ids[k]
                              /\ in[j].orphan_status = "orphan_reply"
                              /\ out[j].orphan_status = "matched_by_subject"
                              /\ out[j].parent_id = out[i].message_id

\* The Subject Matcher has put an orphan under a true_root, which kept its
\* status and gained the child.
C11_Witness ==
    /\ Written("threading_step3")
    /\ LET in == Load("threading_step2")
           out == Load("threading_step3")
       IN  \E i, j \in Positions(out) :
              /\ NoMarkerNoResolvedReply(i)
              /\ in[i].orphan_status = "true_root" /\ out[i].orphan_status = "true_root"
              /\ in[i].children_ids = <<>>
              /\ out[i].children_ids = <<out[j].message_id>>
              /\ out[j].orphan_status = "matched_by_subject"
              /\ out[j].parent_id = out[i].message_id
              /\ Truthy(out[i].message_id)

----------------------------------------------------------------------------
(* The order of the phases *)

\* The file each phase writes its collection to, in the order of the phases.
PhaseFiles == <<"threading_step1", "threading_step2", "threading_step3",
                "threading_step3b", "threading_step3c", "threading_step4_emails">>

\* From the collection before to the collection after, no parent_id that was
\* set is changed or cleared and no entry leaves a children_ids.
Tightens(before, after) ==
    /\ Len(after) = Len(before)
    /\ \A i \in Positions(before) :
          /\ before[i].parent_id # NoneV => after[i].parent_id = before[i].parent_id
          /\ \A k \in 1..Len(before[i].children_ids) :
                InSeq(before[i].children_ids[k], after[i].children_ids)

\* The records a phase gave a parent had none in the collection it read.
AssignsOnlyToParentless(before, after) ==
    \A i \in Positions(before) :
        after[i].parent_id # before[i].parent_id => before[i].parent_id = NoneV

\* C12: once a record's parent_id is non-null after some phase, no later phase
\* changes or clears it, no entry is removed from a children_ids, and the Quote
\* Matcher and the Time-Proximity Merger give a parent only to records that
\* had none on entry.
C12_LaterPhasesOnlyTighten ==
    /\ \A a, b \in 1..Len(PhaseFiles) :
          (a < b /\ Written(PhaseFiles[a]) /\ Written(PhaseFiles[b])) =>
              Tightens(Load(PhaseFiles[a]), Load(PhaseFiles[b]))
    /\ Written("threading_step3b") =>
          AssignsOnlyToParentless(Load("threading_step3"), Load("threading_step3b"))
    /\ Written("threading_step3c") =>
          AssignsOnlyToParentless(Load("threading_step3b"), Load("threading_step3c"))

\* The same over the linking phases alone, the Thread Assembler left out.
LinkingPhasesOnlyTighten ==
    /\ \A a, b \in 1..(Len(PhaseFiles) - 1) :
          (a < b /\ Written(PhaseFiles[a]) /\ Written(PhaseFiles[b])) =>
              Tightens(Load(PhaseFiles[a]), Load(PhaseFiles[b]))
    /\ Written("threading_step3b") =>
          AssignsOnlyToParentless(Load("threading_step3"), Load("threading_step3b"))
    /\ Written("threading_step3c") =>
          AssignsOnlyToParentless(Load("threading_step3b"), Load("threading_step3c"))

\* The threading fields of the collection the Thread Assembler emitted are
\* those of the collection in file f.
AssemblerRead(f) ==
    LET read == Load(f)
        emitted == Load("threading_step4_emails")
    IN  /\ Len(emitted) = Len(read)
        /\ \A i \in Positions(read) :
              /\ emitted[i].parent_id = read[i].parent_id
              /\ emitted[i].children_ids = read[i].children_ids
              /\ emitted[i].orphan_status = read[i].orphan_status

\* Record i is a member of the thread of another record, next to the record
\* that is its parent.
NonRootMemberOfParentsThread(es, threads, i) ==
    \E n \in 1..Len(threads) :
        /\ InSeq(i, threads[n].members)
        /\ es[threads[n].root_position].parent_id = NoneV
        /\ threads[n].root_position # i
        /\ \E j \in Positions(es) :
              /\ InSeq(j, threads[n].members)
              /\ es[j].message_id = es[i].parent_id

\* C13: the Thread Assembler walks the output of the last heuristic phase, the
\* Time-Proximity Merger: the forest it emits is that of threading_step3c, and
\* every record the Quote Matcher or the Time-Proximity Merger matched is a
\* non-root member of its parent's thread.
C13_AssemblerWalksFinishedForest ==
    pc = "done" =>
        /\ AssemblerRead("threading_step3c")
        /\ LET last == Load("threading_step3c")
               threads == Load("threading_step4_threads")
           IN  \A i \in Positions(last) :
                   last[i].orphan_status \in {"matched_by_quote", "matched_by_time_proximity"}
                       => NonRootMemberOfParentsThread(last, threads, i)

----------------------------------------------------------------------------
(* Exceptions *)

\* C14: no condition is fatal: every phase runs to completion without
\* raising, on every input collection.
C14_NoPhaseRaises == raised = "none" /\ pc # "crashed"

----------------------------------------------------------------------------
(* The Subject Normalizer *)

\* C15: normalize_subject is idempotent and pure: a call on the value a call
\* returned returns that value again, a second call on the same subject
\* returns what the first returned, a call touches no state of the pipeline,
\* and the result for the empty subject is the empty string.
C15_NormalizeIdempotentPure ==
    /\ []((pc \in {"returned", "repeated", "renormalized"} /\ call_subject = <<>>)
            => call_result = <<>>)
    /\ [][(pc' \in {"repeated", "renormalized"}) => call_result' = call_result]_vars
    /\ [][(pc' \in {"returned", "repeated", "renormalized"}) => UNCHANGED pipeline_vars]_vars

\* A subject with a forward marker and a list tag has been normalized to
\* 'key', and normalized again.
C15_Witness ==
    /\ pc = "renormalized"
    /\ call_subject = SubjFwdTag
    /\ call_result = <<"k", "e", "y">>

----------------------------------------------------------------------------
(* The Time-Proximity Merger's canonical walk *)

\* The later record is within the window of the canonical: the time between
\* them is at most max_days days, or, in whole days, the number of whole days
\* between them is at most max_days.
WithinWindow(es, later, canonical, in_whole_days) ==
    LET gap == parse_date(es[later].date_parsed) - parse_date(es[canonical].date_parsed)
    IN  IF in_whole_days THEN gap \div 24 <= max_days ELSE gap <= 24 * max_days

\* The groups the walk runs over are the groups of at least two dated true_root
\* records of one normalized subject of at least 4 characters, each in date
\* order, and the walk of a group starts with its earliest member as canonical.
MergerGroups ==
    pc = "step3c_loop" =>
        LET in == Load("threading_step3b")
            Dated(i) == /\ in[i].orphan_status = "true_root"
                        /\ Len(in[i].normalized_subject) >= 4
                        /\ in[i].date_parsed # NoneV
        IN  /\ \A i, j \in Positions(in) :
                  (i # j /\ Dated(i) /\ Dated(j)
                   /\ in[i].normalized_subject = in[j].normalized_subject) =>
                      \E g \in 1..Len(cursor.groups) :
                          InSeq(i, cursor.groups[g]) /\ InSeq(j, cursor.groups[g])
            /\ \A g \in 1..Len(cursor.groups) :
                  /\ Len(cursor.groups[g]) >= 2
                  /\ \A k \in 1..Len(cursor.groups[g]) : Dated(cursor.groups[g][k])
                  /\ \A k, l \in 1..Len(cursor.groups[g]) :
                        k < l => /\ cursor.groups[g][k] # cursor.groups[g][l]
                                 /\ in[cursor.groups[g][k]].date_parsed
                                        <= in[cursor.groups[g][l]].date_parsed
                                 /\ in[cursor.groups[g][k]].normalized_subject
                                        = in[cursor.groups[g][l]].normalized_subject
            /\ (cursor.g <= Len(cursor.groups) /\ cursor.k = 2) =>
                  cursor.canonical = cursor.groups[cursor.g][1]

\* One step of the walk: a member within the window of the canonical becomes
\* its child and the canonical stays; a member beyond the window stays a root
\* and becomes the canonical. With the guard taken into account, a member
\* within the window that the cycle guard rejects stays as it is and the
\* canonical stays.
MergerStep(in_whole_days, with_guard) ==
    (pc = "step3c_loop" /\ cursor.g <= Len(cursor.groups)) =>
        LET later == cursor.groups[cursor.g][cursor.k]
            canonical == cursor.canonical
            goes_on == cursor'.g = cursor.g
            rejected == with_guard /\ would_create_cycle(emails[later].message_id,
                                                         emails[canonical].message_id,
                                                         by_message_id, emails)
        IN  IF ~WithinWindow(emails, later, canonical, in_whole_days)
            THEN /\ emails'[later].parent_id = NoneV
                 /\ emails'[later].orphan_status = "true_root"
                 /\ goes_on => cursor'.canonical = later
            ELSE IF rejected
            THEN /\ emails' = emails
                 /\ goes_on => cursor'.canonical = canonical
            ELSE /\ emails'[later].parent_id = emails[canonical].message_id
                 /\ emails'[later].orphan_status = "matched_by_time_proximity"
                 /\ goes_on => cursor'.canonical = canonical

\* Scenario 3: three true_root records of one subject dated day 1, day 2 and
\* day 10, the only records of the archive.
Scenario3(es, a, b, c) ==
    /\ Len(es) = 3 /\ {a, b, c} = Positions(es)
    /\ es[a].date_parsed = Day(1) /\ es[b].date_parsed = Day(2)
    /\ es[c].date_parsed = Day(10)
    /\ \A i \in Positions(es) : es[i].subject = SubjKeyEscrow /\ es[i].in_reply_to = NoneV
    /\ \A i, j \in Positions(es) : i # j => es[i].id # es[j].id

Scenario3Result ==
    Written("threading_step3c") =>
        LET out == Load("threading_step3c")
        IN  \A a, b, c \in Positions(out) :
                Scenario3(out, a, b, c) =>
                    /\ out[b].parent_id = out[a].message_id
                    /\ out[b].orphan_status = "matched_by_time_proximity"
                    /\ out[a].parent_id = NoneV /\ out[a].orphan_status = "true_root"
                    /\ out[c].parent_id = NoneV /\ out[c].orphan_status = "true_root"

\* C16: the Time-Proximity Merger walks each group of at least two dated
\* true_root records of one normalized subject of at least 4 characters in
\* date order, the canonical first being the earliest member; a later member
\* within the window of max_days days of the canonical becomes its child,
\* matched_by_time_proximity, and the canonical stays; a member beyond the
\* window stays a parentless root and becomes the canonical; for day 1, day 2
\* and day 10 the day-2 record goes under the day-1 record and the day-10
\* record stays a root.
C16_CanonicalWalk ==
    /\ [](MergerGroups /\ Scenario3Result)
    /\ [][MergerStep(FALSE, FALSE)]_vars

\* The walk with the window counted in whole days.
CanonicalWalkInWholeDays ==
    /\ [](MergerGroups /\ Scenario3Result)
    /\ [][MergerStep(TRUE, FALSE)]_vars

\* The walk with the window counted in whole days and the cycle guard.
GuardedCanonicalWalkInWholeDays ==
    /\ [](MergerGroups /\ Scenario3Result)
    /\ [][MergerStep(TRUE, TRUE)]_vars

----------------------------------------------------------------------------
(* The thread records of the Thread Assembler *)

\* The records n parent_id steps away from the root: a step goes from a record
\* to a record whose message_id is its parent_id.
RECURSIVE StepsAway(_, _, _)
StepsAway(es, root, n) ==
    IF n = 0 THEN {root}
    ELSE {i \in Positions(es) :
             \E p \in StepsAway(es, root, n - 1) :
                 es[i].parent_id # NoneV /\ es[i].parent_id = es[p].message_id}

\* The least number of parent_id steps from record i to the root; NoneV when
\* no number of steps arrives at the root.
ParentSteps(es, i, root) ==
    LET ns == {n \in 0..Len(es) : i \in StepsAway(es, root, n)}
    IN  IF ns = {} THEN NoneV ELSE Min(ns)

\* The records reachable from the records of S through children_ids.
RECURSIVE ReachableThroughChildren(_, _, _, _)
ReachableThroughChildren(es, index, S, fuel) ==
    IF fuel = 0 THEN S
    ELSE ReachableThroughChildren(es, index,
             S \cup (UNION {{IndexGet(index, es[i].children_ids[k]) :
                                 k \in 1..Len(es[i].children_ids)} : i \in S} \ {0}),
             fuel - 1)

ThreadDepthIsMaxParentSteps(es, t) ==
    t.depth = Max({ParentSteps(es, t.members[k], t.root_position) :
                      k \in 1..Len(t.members)})

ThreadCountIsReachable(es, index, t) ==
    t.message_count =
        Cardinality(ReachableThroughChildren(es, index, {t.root_position}, Len(es)))

ThreadParticipantsAreSenders(es, t) ==
    LET members == {t.members[k] : k \in 1..Len(t.members)}
        has_sender(i) == Truthy(es[i].from_email) \/ Truthy(es[i].from_raw)
    IN  /\ t.participants = {sender_of(es[i]) : i \in {i \in members : has_sender(i)}}
        /\ t.participant_count = Cardinality(t.participants)

ThreadPgpIsAnyMember(es, t) ==
    t.has_pgp <=> \E k \in 1..Len(t.members) : es[t.members[k]].has_pgp

\* Scenario 5: a forest of one root, two children of the root and one child of
\* one of these.
Scenario5(es, root, c1, c2, g) ==
    /\ Len(es) = 4 /\ {root, c1, c2, g} = Positions(es)
    /\ es[root].parent_id = NoneV
    /\ es[c1].parent_id = es[root].message_id
    /\ es[c2].parent_id = es[root].message_id
    /\ es[g].parent_id = es[c1].message_id
    /\ \A i, j \in Positions(es) : i # j => es[i].message_id # es[j].message_id

\* C17: every thread the Thread Assembler emits has for depth the largest
\* number of parent_id steps from a member to its root, for message_count the
\* number of records reachable from the root through children_ids, for
\* participants the distinct sender identities of its members and for has_pgp
\* whether some member has has_pgp; the thread of a forest of 1 root, 2
\* children and 1 grandchild has depth 2 and message_count 4.
C17_ThreadRecords ==
    pc = "done" =>
        LET es == Load("threading_step3")
            index == build_by_message_id(es)
            threads == Load("threading_step4_threads")
        IN  /\ \A n \in 1..Len(threads) :
                  /\ ThreadDepthIsMaxParentSteps(es, threads[n])
                  /\ ThreadCountIsReachable(es, index, threads[n])
                  /\ ThreadParticipantsAreSenders(es, threads[n])
                  /\ ThreadPgpIsAnyMember(es, threads[n])
            /\ \A root, c1, c2, g \in Positions(es) :
                  Scenario5(es, root, c1, c2, g) =>
                      \E n \in 1..Len(threads) :
                          /\ threads[n].root_position = root
                          /\ threads[n].depth = 2
                          /\ threads[n].message_count = 4

\* The same for the threads of archives in which no two records share a
\* message_id.
ThreadRecordsOfDistinctIds ==
    (pc = "done" /\ \A i, j \in Positions(emails) :
                        (i # j /\ emails[i].message_id # EmptyStr) =>
                            emails[i].message_id # emails[j].message_id)
        => C17_ThreadRecords

\* A forest of one root, two children and one grandchild was assembled, two
\* of its members sharing a sender and one having a PGP body.
C17_Witness ==
    /\ pc = "done"
    /\ \E root, c1, c2, g \in Positions(emails) :
          /\ Scenario5(Load("threading_step3"), root, c1, c2, g)
          /\ sender_of(emails[root]) = sender_of(emails[c1])
          /\ emails[g].has_pgp
    /\ Len(Load("threading_step4_threads")) = 1
    /\ Load("threading_step4_threads")[1].depth = 2
    /\ Load("threading_step4_threads")[1].message_count = 4
    /\ Load("threading_step4_threads")[1].participant_count = 2
    /\ Load("threading_step4_threads")[1].has_pgp

----------------------------------------------------------------------------
(* The date span of a thread *)

KnownDates(es, t) ==
    {es[t.members[k]].date_parsed : k \in 1..Len(t.members)} \ {NoneV}

\* C18: a thread none of whose members has a date is emitted with date_start
\* and date_end both null, and the assembler has not raised; every other
\* thread has the least of its members' known dates as date_start and the
\* greatest as date_end, date_start <= date_end, and in message_ids every
\* member without a date comes before every member with one.
C18_DateSpan ==
    pc = "done" =>
        LET es == Load("threading_step3")
            threads == Load("threading_step4_threads")
        IN  /\ raised = "none"
            /\ Len(threads) = Cardinality({i \in Positions(es) : es[i].parent_id = NoneV})
            /\ \A n \in 1..Len(threads) :
                  LET t == threads[n]
                      known == KnownDates(es, t)
                  IN  /\ known = {} => t.date_start = NoneV /\ t.date_end = NoneV
                      /\ known # {} =>
                            /\ t.date_start \in known /\ t.date_end \in known
                            /\ \A d \in known : t.date_start <= d /\ d <= t.date_end
                            /\ t.date_start <= t.date_end
                      /\ \A k, l \in 1..Len(t.members) :
                            (es[t.members[k]].date_parsed = NoneV
                             /\ es[t.members[l]].date_parsed # NoneV) => k < l
                      /\ t.message_ids = [k \in 1..Len(t.members) |-> es[t.members[k]].id]

\* The assembler emitted a thread none of whose members has a date and a
\* thread of two differently dated members and an undated reply, the undated
\* reply first in message_ids and the later-dated root last.
C18_Witness ==
    /\ pc = "done"
    /\ LET es == Load("threading_step3")
           threads == Load("threading_step4_threads")
       IN  /\ \E n \in 1..Len(threads) :
                 /\ KnownDates(es, threads[n]) = {}
                 /\ threads[n].date_start = NoneV /\ threads[n].date_end = NoneV
           /\ \E n \in 1..Len(threads) :
                 LET t == threads[n]
                 IN  /\ t.date_start = Day(1) /\ t.date_end = Day(2)
                     /\ t.members[1] # t.root_position
                     /\ es[t.members[1]].date_parsed = NoneV
                     /\ t.members[Len(t.members)] = t.root_position

----------------------------------------------------------------------------
(* The records and the fields every phase leaves alone *)

\* The file each phase reads.
PhaseInput(f) ==
    CASE f = "threading_step1" -> "emails_no_spam"
      [] f = "threading_step2" -> "threading_step1"
      [] f = "threading_step3" -> "threading_step2"
      [] f = "threading_step3b" -> "threading_step3"
      [] f = "threading_step3c" -> "threading_step3b"
      [] f = "threading_step4_emails" -> "threading_step3"

ConsumedFieldsSame(a, b) ==
    /\ a.id = b.id /\ a.message_id = b.message_id /\ a.in_reply_to = b.in_reply_to
    /\ a.subject = b.subject /\ a.body = b.body /\ a.date_parsed = b.date_parsed
    /\ a.from_raw = b.from_raw /\ a.from_email = b.from_email

SameRecords(in, out) ==
    /\ Len(out) = Len(in)
    /\ \A i \in Positions(in) : ConsumedFieldsSame(in[i], out[i])

\* C19: the collection each phase writes has the records of the collection it
\* read, as many and none other, with id, message_id, in_reply_to, subject,
\* body, date_parsed and the sender fields as they were read.
C19_PhasesKeepRecords ==
    /\ \A n \in 1..Len(PhaseFiles) :
          Written(PhaseFiles[n]) =>
              SameRecords(Load(PhaseInput(PhaseFiles[n])), Load(PhaseFiles[n]))
    /\ pc \notin {"step1", "crashed"} => SameRecords(Load("emails_no_spam"), emails)

\* Every phase has written its collection, the Subject Matcher or the Quote
\* Matcher having linked a record and the assembler having stamped it.
C19_Witness ==
    /\ pc = "done"
    /\ \A n \in 1..Len(PhaseFiles) : Written(PhaseFiles[n])
    /\ \E i \in Positions(emails) :
          /\ Load("threading_step3b")[i].orphan_status
                 \in {"matched_by_subject", "matched_by_quote"}
          /\ Load("threading_step3b")[i].parent_id # NoneV
          /\ Load("emails_no_spam")[i].parent_id = NoneV
          /\ Load("threading_step4_emails")[i].thread_id # NoneV

----------------------------------------------------------------------------
(* The subjects of the Quote Matcher's parents *)

\* One normalized subject equals the other, is a substring of it or contains it.
SubjectsRelated(a, b) == a = b \/ IsSubstring(a, b) \/ IsSubstring(b, a)

\* C20: every record the Quote Matcher links has a parent whose normalized
\* subject equals its own, is a substring of it or contains it; a record that
\* holds the quoted line under an unrelated subject is never its parent.
C20_QuoteParentSubjectRelated ==
    Written("threading_step3b") =>
        LET out == Load("threading_step3b")
        IN  \A i \in Positions(out) :
                out[i].orphan_status = "matched_by_quote" =>
                    \E p \in Positions(out) :
                        /\ out[p].message_id = out[i].parent_id
                        /\ SubjectsRelated(out[p].normalized_subject,
                                           out[i].normalized_subject)

----------------------------------------------------------------------------
(* Reply subjects *)

\* The trimmed subject begins with a marker the Subject Normalizer strips:
\* Re:, Fwd: or Fw: in any letter case.
BeginsWithStrippedMarker(subject) ==
    \/ StartsWith(Lower(Strip(subject)), <<"r","e",":">>)
    \/ StartsWith(Lower(Strip(subject)), <<"f","w","d",":">>)
    \/ StartsWith(Lower(Strip(subject)), <<"f","w",":">>)

\* C21: is_reply_subject is true of exactly the subjects whose trimmed text
\* begins with a reply or forward marker the Subject Normalizer strips, in
\* any letter case, so that a record the Direct Linker left without a parent
\* is an orphan_reply when its subject begins with such a marker.
C21_ReplySubjectAnyCase ==
    /\ \A i \in Positions(Load("emails_no_spam")) :
          is_reply_subject(Load("emails_no_spam")[i].subject)
              <=> BeginsWithStrippedMarker(Load("emails_no_spam")[i].subject)
    /\ Written("threading_step2") =>
          \A i \in Positions(Load("threading_step2")) :
              LET e == Load("threading_step2")[i]
              IN  (e.parent_id = NoneV /\ BeginsWithStrippedMarker(e.subject)) =>
                      e.orphan_status = "orphan_reply"

\* The same with the markers in the letter cases of reply_patterns only.
ReplySubjectListedCases ==
    \A i \in Positions(Load("emails_no_spam")) :
        LET t == Strip(Load("emails_no_spam")[i].subject)
        IN  is_reply_subject(Load("emails_no_spam")[i].subject)
                <=> \E k \in 1..Len(reply_patterns) : StartsWith(t, reply_patterns[k])

----------------------------------------------------------------------------
(* The Subject Matcher's choice among the candidates *)

\* The score of a candidate: 10 for a true_root, 5 for one with children, 3
\* for one with a parent, and for two known dates 5, 3 or 1 for a gap under 24
\* hours, 7 days or 30 days. With by_truth the candidate has a parent when its
\* parent_id is neither null nor the empty string.
StatedScore(orphan, candidate, by_truth) ==
    LET gap == orphan.date_parsed - candidate.date_parsed
        has_parent == IF by_truth THEN Truthy(candidate.parent_id)
                      ELSE candidate.parent_id # NoneV
    IN  (IF candidate.orphan_status = "true_root" THEN 10 ELSE 0)
      + (IF Len(candidate.children_ids) > 0 THEN 5 ELSE 0)
      + (IF has_parent THEN 3 ELSE 0)
      + (IF orphan.date_parsed = NoneV \/ candidate.date_parsed = NoneV THEN 0
         ELSE IF gap < 24 THEN 5
         ELSE IF gap < 7 * 24 THEN 3
         ELSE IF gap < 30 * 24 THEN 1 ELSE 0)

\* The place of record c in the date-sorted list of its subject group.
PlaceInGroup(es, c) ==
    CHOOSE k \in 1..Len(by_subject(es, es[c].normalized_subject)) :
        by_subject(es, es[c].normalized_subject)[k] = c

\* One iteration of the Subject Matcher on an orphan with eligible candidates:
\* its parent is the first candidate of the greatest score in the date-sorted
\* list of the group, and match_score is that score on the graph of the moment.
SubjectMatcherChoice(by_truth) ==
    (pc = "step3_fixed_loop" /\ cursor <= Len(emails)
     /\ EligibleCandidates(cursor, by_message_id, emails, TRUE) # {}) =>
        LET eligible == EligibleCandidates(cursor, by_message_id, emails, TRUE)
            score(c) == StatedScore(emails[cursor], emails[c], by_truth)
            best == CHOOSE c \in eligible : \A d \in eligible :
                        \/ score(c) > score(d)
                        \/ /\ score(c) = score(d)
                           /\ PlaceInGroup(emails, c) <= PlaceInGroup(emails, d)
        IN  /\ emails'[cursor].orphan_status = "matched_by_subject"
            /\ emails'[cursor].parent_id = emails[best].message_id
            /\ emails'[cursor].match_score = score(best)

\* C22: the parent the Subject Matcher chooses has the greatest score among
\* the eligible candidates, the score being 10 for a true_root, plus 5 for a
\* candidate with children, plus 3 for one with a parent, plus 5, 3 or 1 for a
\* gap under 24 hours, 7 days or 30 days when both dates are known; of the
\* candidates of that score the first in the date-sorted list of the subject
\* group wins, and match_score is the score on the graph at that moment.
C22_BestScoredCandidate == [][SubjectMatcherChoice(FALSE)]_vars

\* The same, a candidate counting as having a parent when its parent_id is a
\* non-empty message_id.
BestScoredCandidateByTruth == [][SubjectMatcherChoice(TRUE)]_vars

----------------------------------------------------------------------------
(* The Quote Matcher's choice among the sources *)

\* The quoted lines of record i the matcher looks up: of its first 5 quoted
\* lines those whose normalized text has at least 20 characters.
LookedUpLines(es, i) ==
    {k \in 1..Len(quoted_lines_of[es[i].body]) :
        k <= 5 /\ Len(normalize_for_matching(quoted_lines_of[es[i].body][k])) >= 20}

HoldsLine(es, s, i, k) ==
    InSeq(normalize_for_matching(quoted_lines_of[es[i].body][k]), snippets_of[es[s].body])

\* The qualifying sources of record i: other records that hold one of these
\* lines and are dated earlier when both dates are known.
QualifyingSources(es, i) ==
    {s \in Positions(es) :
        /\ es[s].id # es[i].id
        /\ EarlierWhenDated(es[i], es[s])
        /\ \E k \in LookedUpLines(es, i) : HoldsLine(es, s, i, k)}

StatedQuoteScore(email, source) ==
    LET days == (email.date_parsed - source.date_parsed) \div 24
    IN  1
      + (IF source.normalized_subject = email.normalized_subject THEN 10
         ELSE IF SubjectsRelated(source.normalized_subject, email.normalized_subject)
              THEN 5 ELSE 0)
      + (IF email.date_parsed = NoneV \/ source.date_parsed = NoneV THEN 0
         ELSE IF days < 1 THEN 5 ELSE IF days < 7 THEN 3 ELSE IF days < 30 THEN 1 ELSE 0)

\* Source s is found before source t: its first line comes first, or the
\* same line and s comes first in the archive.
FoundBefore(es, i, s, t) ==
    LET first(x) == Min({k \in LookedUpLines(es, i) : HoldsLine(es, x, i, k)})
    IN  first(s) < first(t) \/ (first(s) = first(t) /\ s <= t)

\* One iteration of the Quote Matcher on a true_root with quoted lines: with
\* no qualifying source it stays as it is; otherwise the first found of the
\* sources of the greatest score either becomes its parent, or fails the
\* cycle guard and the record stays a parentless true_root, one more cycle
\* counted. With skip_no_subject a record whose normalized subject is empty
\* is left as it is.
QuoteMatcherStep(skip_no_subject) ==
    (pc = "step3b_loop" /\ cursor <= Len(emails)) =>
        LET i == cursor
            Q == QualifyingSources(emails, i)
            score(s) == StatedQuoteScore(emails[i], emails[s])
            best == CHOOSE s \in Q : \A t \in Q :
                        \/ score(s) > score(t)
                        \/ score(s) = score(t) /\ FoundBefore(emails, i, s, t)
        IN  /\ emails[i].orphan_status = "true_root"
            /\ quoted_lines_of[emails[i].body] # <<>>
            /\ IF skip_no_subject /\ emails[i].normalized_subject = <<>>
               THEN emails' = emails /\ stats' = stats
               ELSE IF Q = {}
               THEN emails' = emails /\ stats'.cycles_prevented = stats.cycles_prevented
               ELSE IF would_create_cycle(emails[i].message_id, emails[best].message_id,
                                          by_message_id, emails)
               THEN /\ emails' = emails
                    /\ emails[i].parent_id = NoneV
                    /\ stats'.cycles_prevented = stats.cycles_prevented + 1
               ELSE /\ emails'[i].parent_id = emails[best].message_id
                    /\ emails'[i].orphan_status = "matched_by_quote"
                    /\ emails'[i].quote_match_score = score(best)
                    /\ stats'.cycles_prevented = stats.cycles_prevented

----------------------------------------------------------------------------
(* The width of the Time-Proximity Merger's window *)

\* C24: the Time-Proximity Merger never links a member dated more than
\* max_days x 24 hours after the current canonical: such a member stays
\* unlinked and becomes the canonical, also when the gap is max_days days and
\* some hours.
C24_NeverLinkedBeyondWindow ==
    [][(pc = "step3c_loop" /\ cursor.g <= Len(cursor.groups)
        /\ parse_date(emails[cursor.groups[cursor.g][cursor.k]].date_parsed)
              - parse_date(emails[cursor.canonical].date_parsed) > max_days * 24)
       => /\ emails' = emails
          /\ stats'.too_far_apart = stats.too_far_apart + 1
          /\ cursor'.g = cursor.g => cursor'.canonical = cursor.groups[cursor.g][cursor.k]]_vars

\* The same for the members dated at least max_days + 1 whole days after the
\* canonical.
NeverLinkedAWholeDayBeyondWindow ==
    [][(pc = "step3c_loop" /\ cursor.g <= Len(cursor.groups)
        /\ parse_date(emails[cursor.groups[cursor.g][cursor.k]].date_parsed)
              - parse_date(emails[cursor.canonical].date_parsed) >= (max_days + 1) * 24)
       => /\ emails' = emails
          /\ stats'.too_far_apart = stats.too_far_apart + 1
          /\ cursor'.g = cursor.g => cursor'.canonical = cursor.groups[cursor.g][cursor.k]]_vars

----------------------------------------------------------------------------
(* What a phase has published when it ends *)

\* The collection of the phase that ended last. Every script dumps its
\* statistics in the statements that follow the dump of its collection, so a
\* written collection stands for both files.
EndedPhaseFile ==
    CASE pc = "step2" -> "threading_step1"
      [] pc = "step3" -> "threading_step2"
      [] pc = "step3b" -> "threading_step3"
      [] pc = "step3c" -> "threading_step3b"
      [] pc = "step4" -> "threading_step3c"
      [] pc \in {"done", "crashed"} -> "threading_step4_emails"

\* C25: a phase publishes all of its output or none of it: the assembler's
\* two files are written together, a phase that ended without an error has
\* written its collection, and a phase that ended in an error has published
\* nothing.
C25_AllOrNothing ==
    /\ Written("threading_step4_emails") <=> Written("threading_step4_threads")
    /\ pc \in {"step2", "step3", "step3b", "step3c", "step4", "done", "crashed"} =>
          /\ raised = "none" => Written(EndedPhaseFile)
          /\ raised # "none" => ~Written(EndedPhaseFile)

\* The same without the last part: whatever a phase has written, it has
\* written whole, and a phase that ended without an error has written its
\* collection.
PublishedWhole ==
    /\ Written("threading_step4_emails") <=> Written("threading_step4_threads")
    /\ pc \in {"step2", "step3", "step3b", "step3c", "step4", "done", "crashed"} =>
          (raised = "none" => Written(EndedPhaseFile))

----------------------------------------------------------------------------
(* The order of the records *)

\* threading_step3_fixed.match_orphans on the collection es: the `for email in
\* emails` loop from the orphan at position c on, as match_orphans_email takes
\* it step by step.
RECURSIVE match_orphans_from(_, _, _)
match_orphans_from(es, index, c) ==
    IF c > Len(es) THEN es
    ELSE LET found == find_best_parent(c, index, es, TRUE)
             next == next_with_status(es, c, "orphan_reply")
         IN  IF found.best_parent # 0
             THEN match_orphans_from(link(es, c, found.best_parent, "matched_by_subject",
                                          found.best_score),
                                     IndexPut(index, es[c].message_id, c), next)
             ELSE match_orphans_from(es, index, next)

match_orphans(es) ==
    match_orphans_from(es, build_by_message_id(es), next_with_status(es, 0, "orphan_reply"))

\* threading_step3c_timeprox.merge_by_time_proximity on the collection es: the
\* loops from the position c on, as merge_by_time_proximity_root takes them
\* step by step.
RECURSIVE merge_from(_, _, _)
merge_from(es, index, c) ==
    IF c.g > Len(c.groups) THEN es
    ELSE LET later_root == c.groups[c.g][c.k]
             canonical_root == c.canonical
             days_apart == (parse_date(es[later_root].date_parsed)
                            - parse_date(es[canonical_root].date_parsed)) \div 24
         IN  IF days_apart > max_days
             THEN merge_from(es, index, advance(c, later_root))
             ELSE IF would_create_cycle(es[later_root].message_id,
                                        es[canonical_root].message_id, index, es)
             THEN merge_from(es, index, advance(c, canonical_root))
             ELSE merge_from([link(es, later_root, canonical_root,
                                   "matched_by_time_proximity", es[later_root].match_score)
                                EXCEPT ![later_root].time_proximity_days = days_apart],
                             IndexPut(index, es[later_root].message_id, later_root),
                             advance(c, canonical_root))

merge_by_time_proximity(es) ==
    LET groups == merge_groups(es, group_firsts(es))
    IN  merge_from(es, build_by_message_id(es),
                   [groups |-> groups, g |-> 1, k |-> 2,
                    canonical |-> IF groups = <<>> THEN 0 ELSE groups[1][1]])

\* The two functions give what the phases write.
PhasesAsFunctions ==
    /\ Written("threading_step3") =>
          Load("threading_step3") = match_orphans(Load("threading_step2"))
    /\ Written("threading_step3c") =>
          Load("threading_step3c") = merge_by_time_proximity(Load("threading_step3b"))

\* The orderings of a collection of n records.
Orderings(n) == {p \in [1..n -> 1..n] : \A i, j \in 1..n : p[i] = p[j] => i = j}
Reordered(es, p) == [k \in 1..Len(es) |-> es[p[k]]]

\* Every record has the same parent_id in out as in the output of the
\* reordered collection.
SameParents(out, reordered_out, p) ==
    \A k \in 1..Len(out) : reordered_out[k].parent_id = out[p[k]].parent_id

\* C26: the forest does not depend on the order of the records: for every
\* ordering of the collection the Subject Matcher reads, and of the collection
\* the Time-Proximity Merger reads, the phase gives every record the parent_id
\* it gives it in the order of the archive.
C26_OrderIndependent ==
    /\ pc = "step3" =>
          \A p \in Orderings(Len(Load("threading_step2"))) :
              SameParents(match_orphans(Load("threading_step2")),
                          match_orphans(Reordered(Load("threading_step2"), p)), p)
    /\ pc = "step3c" =>
          \A p \in Orderings(Len(Load("threading_step3b"))) :
              SameParents(merge_by_time_proximity(Load("threading_step3b")),
                          merge_by_time_proximity(Reordered(Load("threading_step3b"), p)), p)

\* The part of C26 about the Time-Proximity Merger.
MergerOrderIndependent ==
    pc = "step3c" =>
        \A p \in Orderings(Len(Load("threading_step3b"))) :
            SameParents(merge_by_time_proximity(Load("threading_step3b")),
                        merge_by_time_proximity(Reordered(Load("threading_step3b"), p)), p)

----------------------------------------------------------------------------
(* The lifecycle of orphan_status *)

\* The change of status a phase may make, the phase named by the file it
\* writes.
AllowedTransition(file, from, to) ==
    \/ file = "threading_step3" /\ from = "orphan_reply" /\ to = "matched_by_subject"
    \/ file = "threading_step3b" /\ from = "true_root" /\ to = "matched_by_quote"
    \/ file = "threading_step3c" /\ from = "true_root" /\ to = "matched_by_time_proximity"

Settled(status) ==
    status \in {"has_parent", "matched_by_subject", "matched_by_quote",
                "matched_by_time_proximity"}

\* From the Orphan Classifier's collection on, up to the n-th phase: a status
\* differs between the collections of two successive phases only by the
\* transition of the later phase, and a settled status is the same in the
\* collection of every later phase.
StatusLifecycle(n) ==
    /\ \A b \in 3..n :
          Written(PhaseFiles[b]) =>
              \A i \in Positions(Load(PhaseFiles[b])) :
                  LET from == Load(PhaseFiles[b - 1])[i].orphan_status
                      to == Load(PhaseFiles[b])[i].orphan_status
                  IN  from = to \/ AllowedTransition(PhaseFiles[b], from, to)
    /\ \A a, b \in 2..n :
          (a < b /\ Written(PhaseFiles[b])) =>
              \A i \in Positions(Load(PhaseFiles[a])) :
                  Settled(Load(PhaseFiles[a])[i].orphan_status) =>
                      Load(PhaseFiles[b])[i].orphan_status
                          = Load(PhaseFiles[a])[i].orphan_status

\* C27: over the pipeline orphan_status changes only from orphan_reply to
\* matched_by_subject in the Subject Matcher, from true_root to
\* matched_by_quote in the Quote Matcher and from true_root to
\* matched_by_time_proximity in the Time-Proximity Merger, and a record that
\* is has_parent or matched_by_* keeps that status in every later phase.
C27_StatusLifecycle == StatusLifecycle(Len(PhaseFiles))

\* The same up to the Time-Proximity Merger.
StatusLifecycleOfLinking == StatusLifecycle(Len(PhaseFiles) - 1)

----------------------------------------------------------------------------
(* Status and parent pointer *)

\* In the collection es a record has no parent_id exactly when it is a
\* true_root or an orphan_reply, and the parent_id of a record of any other
\* status is the message_id of another record. With own_allowed the parent_id
\* may also be the message_id of the record itself.
StatusAgreesWithParent(es, own_allowed) ==
    \A i \in Positions(es) :
        /\ es[i].parent_id = NoneV <=> es[i].orphan_status \in {"true_root", "orphan_reply"}
        /\ Settled(es[i].orphan_status) =>
              /\ es[i].parent_id # NoneV
              /\ \E p \in Positions(es) :
                    /\ own_allowed \/ p # i
                    /\ es[p].message_id = es[i].parent_id

\* C28: in the collection of every phase from the Orphan Classifier on, a
\* record has a null parent_id if and only if its orphan_status is true_root
\* or orphan_reply, and a record that is has_parent or matched_by_* has a
\* parent_id that is the message_id of another record.
C28_StatusAgreesWithParent ==
    \A n \in 2..Len(PhaseFiles) :
        Written(PhaseFiles[n]) => StatusAgreesWithParent(Load(PhaseFiles[n]), FALSE)

\* The same, a record being allowed its own message_id as parent_id.
StatusAgreesWithParentOrSelf ==
    \A n \in 2..Len(PhaseFiles) :
        Written(PhaseFiles[n]) => StatusAgreesWithParent(Load(PhaseFiles[n]), TRUE)

----------------------------------------------------------------------------
(* The end of the Thread Assembler's traversal *)

\* The assembler has not ended with a RecursionError.
TraversalReturns == pc # "crashed"

\* No thread the assembler has emitted holds a record twice.
NoRecordVisitedTwice ==
    pc = "done" =>
        \A n \in 1..Len(Load("threading_step4_threads")) :
            LET members == Load("threading_step4_threads")[n].members
            IN  \A k, l \in 1..Len(members) : members[k] = members[l] => k = l

\* C29: the Thread Assembler's traversal ends for every forest the earlier
\* phases produce: from a parentless record, following children_ids through
\* the message-id index, it visits no record twice, also with shared
\* message_ids and in_reply_to loops in the input, and the assembler emits
\* its thread records.
C29_TraversalTerminates == TraversalReturns /\ NoRecordVisitedTwice

----------------------------------------------------------------------------
(* The canonical record of the Time-Proximity Merger *)

UniqueMessageIds(es) ==
    \A i, j \in Positions(es) :
        /\ es[i].message_id # EmptyStr
        /\ i # j => es[i].message_id # es[j].message_id

\* A step of the merger that links a member finds the canonical a parentless
\* true_root.
CanonicalIsRootWhenLinking ==
    (pc = "step3c_loop" /\ cursor.g <= Len(cursor.groups) /\ emails' # emails) =>
        /\ emails[cursor.canonical].parent_id = NoneV
        /\ emails[cursor.canonical].orphan_status = "true_root"
        /\ emails'[cursor.groups[cursor.g][cursor.k]].parent_id
               = emails[cursor.canonical].message_id

\* Every record the merger has linked has a parent without a parent, and with
\* unique message_ids the cycle guard has not fired.
MergerLinksNeverChain ==
    pc \in {"step3c_loop", "step4"} =>
        /\ \A i \in Positions(emails) :
              emails[i].orphan_status = "matched_by_time_proximity" =>
                  \E p \in Positions(emails) :
                      /\ emails[p].message_id = emails[i].parent_id
                      /\ emails[p].parent_id = NoneV
        /\ UniqueMessageIds(emails) => stats.cycles_prevented = 0

\* C30: in the Time-Proximity Merger the canonical record is a parentless
\* true_root whenever a member is linked under it, so every record that is
\* matched_by_time_proximity has a parent whose own parent_id is null, and
\* when the message_ids are unique the cycle guard never fires in this phase:
\* cycles_prevented stays 0.
C30_CanonicalIsRoot ==
    /\ []MergerLinksNeverChain
    /\ [][CanonicalIsRootWhenLinking]_vars

\* The merger has linked a member of a group under its first canonical and
\* has gone on to a second canonical, the message_ids being unique.
C30_Witness ==
    /\ pc = "step4"
    /\ UniqueMessageIds(emails)
    /\ stats.matches_found = 1 /\ stats.too_far_apart = 1 /\ stats.cycles_prevented = 0
    /\ \E i, p \in Positions(emails) :
          /\ emails[i].orphan_status = "matched_by_time_proximity"
          /\ emails[p].message_id = emails[i].parent_id
          /\ emails[p].parent_id = NoneV /\ emails[p].orphan_status = "true_root"
====
